---- MODULE Spec2Model ----
(***************************************************************************)
(* ControlBox: the WebSocket ingest gateway with its in-memory registry of *)
(* active sessions (websocket/index.ts) and the incident classification    *)
(* engine (classification-engine.ts), as state machines.                   *)
(*                                                                         *)
(* Spec          the registry: a relay's events, the REST layer's reads,   *)
(*               the clock and the periodic stale-session sweep.           *)
(* RoomSpec      the rooms: relay and dashboard connections joining and    *)
(*               leaving, and the relay's events, with the clock stopped.  *)
(* RelaySpec     several connections sending telemetry for the same        *)
(*               sessions.                                                 *)
(* PipelineSpec  the classification engine: processTrigger invocations and *)
(*               the completion of their persistence calls.                *)
(* IncidentSpec  both producers of incidents: the relay's incident event   *)
(*               and processTrigger up to its persistence call.            *)
(***************************************************************************)
EXTENDS Integers, Sequences, FiniteSets, TLC

VARIABLES
    activeSessions,  \* the Map sessionId -> SessionEntry
    now,             \* Date.now(), in ms since initializeWebSocket
    nextSweep,       \* due time of the setInterval sweep timer
    connected,       \* sockets whose 'connection' handler has run
    rooms,           \* sessionId -> members of room session:<id>
    emitted,         \* the emit calls of the most recent handler, in order
    lastEvent,       \* the most recent handler and its input
    ingested,        \* history: sessions named by any ingest event since they were last removed
    registered,      \* history: sessions named by session_metadata/telemetry since last removed
    refreshedAt,     \* history: when session_metadata/telemetry last named each of them
    evicted,         \* history: sessions, not named since, whose entry with metadata and drivers a sweep removed
    io,              \* how many times initializeWebSocket has assigned `io` (0: undefined)
    laterTimers,     \* due times of the sweep timers started by later initializeWebSocket calls
    calls,           \* processTrigger invocations: id -> progress
    built,           \* what the most recent processTrigger invocation computed
    createLog,       \* incident ids handed to incidentRepo.create, in call order
    emitLog,         \* incident ids emitted as 'incident:classified', in order
    store,           \* the dashboard's session store (useSessionStore)
    listeners,       \* which functions of the store have registered its socket listeners
    storeEvent,      \* the most recent store action or socket callback and its input
    applied,         \* migration files whose SQL is committed in the database
    recorded,        \* the names in the _migrations table
    run              \* the current runMigrations call

serverVars == <<io, laterTimers>>
gatewayVars == <<activeSessions, now, nextSweep, connected, rooms, emitted,
                 lastEvent, ingested, registered, refreshedAt, evicted,
                 io, laterTimers>>
pipelineVars == <<calls, built, createLog, emitLog>>
dashboardVars == <<store, listeners, storeEvent>>
migrationVars == <<applied, recorded, run>>
vars == <<activeSessions, now, nextSweep, connected, rooms, emitted,
          lastEvent, ingested, registered, refreshedAt, evicted, io, laterTimers,
          calls, built, createLog, emitLog,
          store, listeners, storeEvent, applied, recorded, run>>

(***************************************************************************)
(* Bounds and input sets                                                   *)
(***************************************************************************)
MaxSweeps == 3
MaxCalls == 2
\* initializeWebSocket is called at most this many times.
MaxInits == 2
\* runMigrations is called at most this many times.
MaxRuns == 2

Sessions == {"S1", "S2"}
Sockets == {"c1", "c2"}
Relays == {"c1"}
TrackNames == {"Spa"}
SessionTypes == {"practice"}

\* An optional field that is not given (undefined): a number, a string.
Undefined == -1
Missing == "undefined"

\* The incident events relays send: every field given, only the required
\* ones, some of the optional ones.
Incidents ==
    {[sessionId |-> s, type |-> "contact", driverId |-> "D1", driverName |-> "Ann",
      carNumber |-> "7", lapNumber |-> 5, trackPosition |-> 42, severity |-> "heavy"]
        : s \in Sessions}
    \cup
    {[sessionId |-> s, type |-> "spin", driverId |-> "D2", driverName |-> Missing,
      carNumber |-> Missing, lapNumber |-> Undefined, trackPosition |-> Undefined,
      severity |-> Missing] : s \in Sessions}
    \cup
    {[sessionId |-> s, type |-> "off_track", driverId |-> "D1", driverName |-> "Ann",
      carNumber |-> Missing, lapNumber |-> 3, trackPosition |-> Undefined,
      severity |-> "light"] : s \in Sessions}

\* The incident events with only the required fields.
MinimalIncidents == {d \in Incidents : d.severity = Missing}

RaceEvents == {[sessionId |-> s, eventType |-> "yellow_flag"] : s \in Sessions}

TTL == 60000
SweepInterval == 30000

\* Offsets within a sweep period at which the clock is observed.
TickOffsets == {0, 20000, 29000}
MaxNow == MaxSweeps * SweepInterval
Instants ==
    {t \in {k * SweepInterval + o : k \in 0..MaxSweeps, o \in TickOffsets} : t <= MaxNow}

\* Driver records of telemetry frames (lapDistPct in percent).
DriverRecord(d, lap, pos) ==
    [driverId |-> d, driverName |-> "Driver", carNumber |-> "7",
     lapDistPct |-> lap, position |-> pos]

\* data.drivers of a telemetry event: absent, or a list of driver records.
NoDrivers == [given |-> FALSE, list |-> <<>>]
Drivers(list) == [given |-> TRUE, list |-> list]

\* The frames relays send: no drivers array; one driver; two drivers with
\* positions out of order, one of them named twice.
Frames ==
    {NoDrivers,
     Drivers(<<DriverRecord("D1", 42, Undefined)>>),
     Drivers(<<DriverRecord("D1", 0, 2), DriverRecord("D2", 42, 1),
               DriverRecord("D1", 7, Undefined)>>)}
FrameDrivers(frame) == IF frame.given THEN frame.list ELSE <<>>

\* The frames a second connection sends for the same sessions: a driver only
\* it reports, and D1 with another lap distance.
SecondRelayFrames ==
    {Drivers(<<DriverRecord("D3", 55, 3), DriverRecord("D1", 88, 1)>>)}
FramesOf(c) == IF c \in Relays THEN Frames ELSE SecondRelayFrames

(***************************************************************************)
(* The registry                                                            *)
(***************************************************************************)
Put(map, key, value) ==
    [k \in DOMAIN map \cup {key} |-> IF k = key THEN value ELSE map[k]]

Remove(map, keys) == [k \in DOMAIN map \ keys |-> map[k]]

EmptyMap == [k \in {} |-> 0]

\* session_metadata: activeSessions.set(data.sessionId, {...})
MetadataEntry(data, t) ==
    [sessionId |-> data.sessionId, trackName |-> data.trackName,
     sessionType |-> data.sessionType, drivers |-> EmptyMap, lastUpdate |-> t]

\* Variant: the placeholder takes the session id as its track name.
PlaceholderEntryFromId(sessionId, t) ==
    [sessionId |-> sessionId, trackName |-> sessionId,
     sessionType |-> "race", drivers |-> EmptyMap, lastUpdate |-> t]

\* telemetry: the entry auto-created for a session without metadata
PlaceholderEntry(sessionId, t) ==
    [sessionId |-> sessionId, trackName |-> "Unknown Track",
     sessionType |-> "race", drivers |-> EmptyMap, lastUpdate |-> t]

\* telemetry: what is stored for one driver of the frame
Snapshot(driver) ==
    [driverId |-> driver.driverId, driverName |-> driver.driverName,
     carNumber |-> driver.carNumber, lapDistPct |-> driver.lapDistPct]

\* telemetry: for (const driver of data.drivers) drivers.set(driver.driverId, ...)
RECURSIVE SetDrivers(_, _)
SetDrivers(drivers, list) ==
    IF list = <<>> THEN drivers
    ELSE SetDrivers(Put(drivers, Head(list).driverId, Snapshot(Head(list))), Tail(list))

\* Variant: every frame starts from a new placeholder entry.
ApplyTelemetryReplacing(reg, sessionId, frame, t) ==
    Put(reg, sessionId,
        [PlaceholderEntry(sessionId, t) EXCEPT
            !.drivers = SetDrivers(EmptyMap, FrameDrivers(frame))])

\* Variant: a frame without a drivers array leaves the registry alone.
ApplyTelemetryDriversRequired(reg, sessionId, frame, t) ==
    IF ~frame.given THEN reg
    ELSE LET ensured == IF sessionId \in DOMAIN reg THEN reg
                        ELSE Put(reg, sessionId, PlaceholderEntry(sessionId, t))
             entry == ensured[sessionId]
         IN  Put(ensured, sessionId,
                 [entry EXCEPT !.lastUpdate = t,
                               !.drivers = SetDrivers(entry.drivers, FrameDrivers(frame))])

\* Variant: a frame for a session without an entry is dropped.
ApplyTelemetryKnownOnly(reg, sessionId, frame, t) ==
    IF sessionId \notin DOMAIN reg THEN reg
    ELSE Put(reg, sessionId,
             [reg[sessionId] EXCEPT
                 !.lastUpdate = t,
                 !.drivers = SetDrivers(reg[sessionId].drivers, FrameDrivers(frame))])

\* Variant: lastUpdate is set only when the entry is created.
ApplyTelemetryNoRefresh(reg, sessionId, frame, t) ==
    LET ensured == IF sessionId \in DOMAIN reg THEN reg
                   ELSE Put(reg, sessionId, PlaceholderEntry(sessionId, t))
    IN  Put(ensured, sessionId,
            [ensured[sessionId] EXCEPT
                !.drivers = SetDrivers(ensured[sessionId].drivers, FrameDrivers(frame))])

\* Variant: a driver already in the map keeps the snapshot it has.
ApplyTelemetryFirstWins(reg, sessionId, frame, t) ==
    LET ensured == IF sessionId \in DOMAIN reg THEN reg
                   ELSE Put(reg, sessionId, PlaceholderEntry(sessionId, t))
        had == ensured[sessionId].drivers
        sent == SetDrivers(EmptyMap, FrameDrivers(frame))
    IN  Put(ensured, sessionId,
            [ensured[sessionId] EXCEPT
                !.lastUpdate = t,
                !.drivers = [d \in DOMAIN had \cup DOMAIN sent |->
                                IF d \in DOMAIN had THEN had[d] ELSE sent[d]]])

\* Variant: the driver map is rebuilt from the frame alone.
ApplyTelemetryFresh(reg, sessionId, frame, t) ==
    LET ensured == IF sessionId \in DOMAIN reg THEN reg
                   ELSE Put(reg, sessionId, PlaceholderEntry(sessionId, t))
    IN  Put(ensured, sessionId,
            [ensured[sessionId] EXCEPT !.lastUpdate = t,
                                       !.drivers = SetDrivers(EmptyMap, FrameDrivers(frame))])

\* telemetry: the registry after the handler
ApplyTelemetry(reg, sessionId, frame, t) ==
    LET ensured == IF sessionId \in DOMAIN reg THEN reg
                   ELSE Put(reg, sessionId, PlaceholderEntry(sessionId, t))
        entry == ensured[sessionId]
    IN  Put(ensured, sessionId,
            [entry EXCEPT !.lastUpdate = t,
                          !.drivers = SetDrivers(entry.drivers, FrameDrivers(frame))])

\* Variant: the entries are sorted by position.
TimingEntriesSorted(frame) ==
    LET list == FrameDrivers(frame)
        pos(i) == IF list[i].position = Undefined THEN i ELSE list[i].position
        rank(i) == 1 + Cardinality({j \in 1..Len(list) :
                                       pos(j) < pos(i) \/ (pos(j) = pos(i) /\ j < i)})
        at(k) == CHOOSE i \in 1..Len(list) : rank(i) = k
    IN  [k \in 1..Len(list) |->
            [driverId |-> list[at(k)].driverId, driverName |-> list[at(k)].driverName,
             carNumber |-> list[at(k)].carNumber,
             position |-> pos(at(k)),
             lapNumber |-> 0,
             lapDistPct |-> list[at(k)].lapDistPct]]

\* telemetry: the entries of 'timing:update'
TimingEntries(frame) ==
    LET list == FrameDrivers(frame)
    IN  [idx \in 1..Len(list) |->
            [driverId |-> list[idx].driverId, driverName |-> list[idx].driverName,
             carNumber |-> list[idx].carNumber,
             position |-> IF list[idx].position = Undefined THEN idx
                          ELSE list[idx].position,
             lapNumber |-> 0,
             lapDistPct |-> list[idx].lapDistPct]]

\* Variant: an entry has to be two minutes old to be stale.
IsStaleTwoMinutes(session, t) == t - session.lastUpdate > 2 * TTL

\* Variant: the TTL boundary counts as stale.
IsStaleInclusive(session, t) == t - session.lastUpdate >= TTL

\* the sweep's test
IsStale(session, t) == t - session.lastUpdate > TTL

\* Variant: the sweep also empties the driver maps of the entries it keeps.
SweepRegistryClearingDrivers(reg, t) ==
    LET kept == Remove(reg, {s \in DOMAIN reg : IsStale(reg[s], t)})
    IN  [s \in DOMAIN kept |-> [kept[s] EXCEPT !.drivers = EmptyMap]]

\* the sweep: the registry after deleting the stale entries
SweepRegistry(reg, t) == Remove(reg, {s \in DOMAIN reg : IsStale(reg[s], t)})

\* Variant: sessions without drivers are left out.
GetActiveSessionsWithDrivers(reg) ==
    {[sessionId |-> reg[s].sessionId, trackName |-> reg[s].trackName,
      sessionType |-> reg[s].sessionType,
      driverCount |-> Cardinality(DOMAIN reg[s].drivers),
      lastUpdate |-> reg[s].lastUpdate] : s \in {k \in DOMAIN reg : reg[k].drivers # EmptyMap}}

\* getActiveSessions()
GetActiveSessions(reg) ==
    {[sessionId |-> reg[s].sessionId, trackName |-> reg[s].trackName,
      sessionType |-> reg[s].sessionType,
      driverCount |-> Cardinality(DOMAIN reg[s].drivers),
      lastUpdate |-> reg[s].lastUpdate] : s \in DOMAIN reg}

(***************************************************************************)
(* Emission                                                                *)
(***************************************************************************)
Emit(to, event, payload) == [to |-> to, event |-> event, payload |-> payload]

\* Variant: the ack goes out with io.emit.
AckToAll(c, type) == Emit(connected, "ack", [originalType |-> type, success |-> TRUE])

\* socket.emit('ack', ...)
Ack(c, type) == Emit({c}, "ack", [originalType |-> type, success |-> TRUE])

Event(name, c, sessionId, data) ==
    [name |-> name, socket |-> c, sessionId |-> sessionId, data |-> data]

NoEvent == Event("none", "none", "none", <<>>)

(***************************************************************************)
(* Gateway actions                                                         *)
(***************************************************************************)
\* An entry that session_metadata named and telemetry filled with drivers.
HadMetadataAndDrivers(session) ==
    session.trackName # "Unknown Track" /\ DOMAIN session.drivers # {}

Connect(c) ==
    /\ c \notin connected
    /\ connected' = connected \cup {c}
    /\ emitted' = <<>>
    /\ lastEvent' = Event("connection", c, "none", <<>>)
    /\ UNCHANGED <<activeSessions, now, nextSweep, rooms, ingested, registered, refreshedAt>>
    /\ UNCHANGED evicted
    /\ UNCHANGED serverVars
    /\ UNCHANGED pipelineVars
    /\ UNCHANGED dashboardVars
    /\ UNCHANGED migrationVars

Disconnect(c) ==
    /\ c \in connected
    /\ connected' = connected \ {c}
    /\ rooms' = [s \in Sessions |-> rooms[s] \ {c}]
    /\ emitted' = <<>>
    /\ lastEvent' = Event("disconnect", c, "none", <<>>)
    /\ UNCHANGED <<activeSessions, now, nextSweep, ingested, registered, refreshedAt>>
    /\ UNCHANGED evicted
    /\ UNCHANGED serverVars
    /\ UNCHANGED pipelineVars
    /\ UNCHANGED dashboardVars
    /\ UNCHANGED migrationVars

\* Variant: the connection joins the room only when the session is known.
RoomJoinKnownOnly(c, s) ==
    /\ c \in connected
    /\ rooms' = IF s \in DOMAIN activeSessions
                THEN [rooms EXCEPT ![s] = @ \cup {c}]
                ELSE rooms
    /\ emitted' =
          (IF s \in DOMAIN activeSessions
           THEN <<Emit({c}, "session:state",
                       [sessionId |-> s, trackName |-> activeSessions[s].trackName,
                        sessionType |-> activeSessions[s].sessionType,
                        status |-> "active"])>>
           ELSE <<>>)
          \o <<Emit({c}, "room:joined", [sessionId |-> s])>>
    /\ lastEvent' = Event("room:join", c, s, <<>>)
    /\ UNCHANGED <<activeSessions, now, nextSweep, connected, ingested, registered, refreshedAt>>
    /\ UNCHANGED evicted
    /\ UNCHANGED serverVars
    /\ UNCHANGED pipelineVars
    /\ UNCHANGED dashboardVars
    /\ UNCHANGED migrationVars

RoomJoin(c, s) ==
    /\ c \in connected
    /\ rooms' = [rooms EXCEPT ![s] = @ \cup {c}]
    /\ emitted' =
          (IF s \in DOMAIN activeSessions
           THEN <<Emit({c}, "session:state",
                       [sessionId |-> s, trackName |-> activeSessions[s].trackName,
                        sessionType |-> activeSessions[s].sessionType,
                        status |-> "active"])>>
           ELSE <<>>)
          \o <<Emit({c}, "room:joined", [sessionId |-> s])>>
    /\ lastEvent' = Event("room:join", c, s, <<>>)
    /\ UNCHANGED <<activeSessions, now, nextSweep, connected, ingested, registered, refreshedAt>>
    /\ UNCHANGED evicted
    /\ UNCHANGED serverVars
    /\ UNCHANGED pipelineVars
    /\ UNCHANGED dashboardVars
    /\ UNCHANGED migrationVars

RoomLeave(c, s) ==
    /\ c \in connected
    /\ rooms' = [rooms EXCEPT ![s] = @ \ {c}]
    /\ emitted' = <<>>
    /\ lastEvent' = Event("room:leave", c, s, <<>>)
    /\ UNCHANGED <<activeSessions, now, nextSweep, connected, ingested, registered, refreshedAt>>
    /\ UNCHANGED evicted
    /\ UNCHANGED serverVars
    /\ UNCHANGED pipelineVars
    /\ UNCHANGED dashboardVars
    /\ UNCHANGED migrationVars

\* Variant: the handler does not join the sender to the room of the session.
SessionMetadataNoJoin(c, data) ==
    /\ c \in connected
    /\ activeSessions' = Put(activeSessions, data.sessionId, MetadataEntry(data, now))
    /\ emitted' = <<Emit(connected, "session:active",
                         [sessionId |-> data.sessionId, trackName |-> data.trackName,
                          sessionType |-> data.sessionType]),
                    Ack(c, "session_metadata")>>
    /\ lastEvent' = Event("session_metadata", c, data.sessionId, data)
    /\ ingested' = ingested \cup {data.sessionId}
    /\ registered' = registered \cup {data.sessionId}
    /\ refreshedAt' = Put(refreshedAt, data.sessionId, now)
    /\ UNCHANGED <<now, nextSweep, connected, rooms>>
    /\ evicted' = evicted \ {data.sessionId}
    /\ UNCHANGED serverVars
    /\ UNCHANGED pipelineVars
    /\ UNCHANGED dashboardVars
    /\ UNCHANGED migrationVars

SessionMetadata(c, data) ==
    /\ c \in connected
    /\ activeSessions' = Put(activeSessions, data.sessionId, MetadataEntry(data, now))
    /\ rooms' = [rooms EXCEPT ![data.sessionId] = @ \cup {c}]
    /\ emitted' = <<Emit(connected, "session:active",
                         [sessionId |-> data.sessionId, trackName |-> data.trackName,
                          sessionType |-> data.sessionType]),
                    Ack(c, "session_metadata")>>
    /\ lastEvent' = Event("session_metadata", c, data.sessionId, data)
    /\ ingested' = ingested \cup {data.sessionId}
    /\ registered' = registered \cup {data.sessionId}
    /\ refreshedAt' = Put(refreshedAt, data.sessionId, now)
    /\ UNCHANGED <<now, nextSweep, connected>>
    /\ evicted' = evicted \ {data.sessionId}
    /\ UNCHANGED serverVars
    /\ UNCHANGED pipelineVars
    /\ UNCHANGED dashboardVars
    /\ UNCHANGED migrationVars

\* Variant: the timing update goes out with io.emit.
TelemetryToAll(c, s, frame) ==
    /\ c \in connected
    /\ activeSessions' = ApplyTelemetry(activeSessions, s, frame, now)
    /\ emitted' = <<Emit(connected, "timing:update",
                         [sessionId |-> s, sessionTimeMs |-> now,
                          entries |-> TimingEntries(frame)])>>
    /\ lastEvent' = Event("telemetry", c, s,
                           [frame |-> frame, unseen |-> s \notin DOMAIN activeSessions,
                            evicted |-> s \in evicted])
    /\ ingested' = ingested \cup {s}
    /\ registered' = registered \cup {s}
    /\ refreshedAt' = Put(refreshedAt, s, now)
    /\ UNCHANGED <<now, nextSweep, connected, rooms>>
    /\ evicted' = evicted \ {s}
    /\ UNCHANGED serverVars
    /\ UNCHANGED pipelineVars
    /\ UNCHANGED dashboardVars
    /\ UNCHANGED migrationVars

Telemetry(c, s, frame) ==
    /\ c \in connected
    /\ activeSessions' = ApplyTelemetry(activeSessions, s, frame, now)
    /\ emitted' = <<Emit(rooms[s], "timing:update",
                         [sessionId |-> s, sessionTimeMs |-> now,
                          entries |-> TimingEntries(frame)])>>
    /\ lastEvent' = Event("telemetry", c, s,
                           [frame |-> frame, unseen |-> s \notin DOMAIN activeSessions,
                            evicted |-> s \in evicted])
    /\ ingested' = ingested \cup {s}
    /\ registered' = registered \cup {s}
    /\ refreshedAt' = Put(refreshedAt, s, now)
    /\ UNCHANGED <<now, nextSweep, connected, rooms>>
    /\ evicted' = evicted \ {s}
    /\ UNCHANGED serverVars
    /\ UNCHANGED pipelineVars
    /\ UNCHANGED dashboardVars
    /\ UNCHANGED migrationVars

\* Variant: the optional fields are passed on as they came.
IncidentPayloadNoDefaults(data, t) ==
    [sessionId |-> data.sessionId,
     incident |->
        [id |-> t,
         type |-> data.type,
         severity |-> data.severity,
         lapNumber |-> data.lapNumber,
         sessionTimeMs |-> t,
         trackPosition |-> data.trackPosition,
         involvedDrivers |->
            <<[driverId |-> data.driverId,
               driverName |-> data.driverName,
               carNumber |-> data.carNumber,
               role |-> "involved"]>>,
         status |-> "pending"]]

\* Variant: the gateway names the initial status 'new'.
IncidentPayloadNew(data, t) ==
    [sessionId |-> data.sessionId,
     incident |->
        [id |-> t,
         type |-> data.type,
         severity |-> IF data.severity = Missing THEN "medium" ELSE data.severity,
         lapNumber |-> IF data.lapNumber = Undefined THEN 0 ELSE data.lapNumber,
         sessionTimeMs |-> t,
         trackPosition |-> IF data.trackPosition = Undefined THEN 0
                           ELSE data.trackPosition,
         involvedDrivers |->
            <<[driverId |-> data.driverId,
               driverName |-> IF data.driverName = Missing THEN "Unknown"
                              ELSE data.driverName,
               carNumber |-> IF data.carNumber = Missing THEN "??" ELSE data.carNumber,
               role |-> "involved"]>>,
         status |-> "new"]]

\* incident: the payload broadcast as 'incident:new'
IncidentPayload(data, t) ==
    [sessionId |-> data.sessionId,
     incident |->
        [id |-> t,
         type |-> data.type,
         severity |-> IF data.severity = Missing THEN "medium" ELSE data.severity,
         lapNumber |-> IF data.lapNumber = Undefined THEN 0 ELSE data.lapNumber,
         sessionTimeMs |-> t,
         trackPosition |-> IF data.trackPosition = Undefined THEN 0
                           ELSE data.trackPosition,
         involvedDrivers |->
            <<[driverId |-> data.driverId,
               driverName |-> IF data.driverName = Missing THEN "Unknown"
                              ELSE data.driverName,
               carNumber |-> IF data.carNumber = Missing THEN "??" ELSE data.carNumber,
               role |-> "involved"]>>,
         status |-> "pending"]]

Incident(c, data) ==
    /\ c \in connected
    /\ emitted' = <<Emit(rooms[data.sessionId], "incident:new", IncidentPayload(data, now)),
                    Ack(c, "incident")>>
    /\ lastEvent' = Event("incident", c, data.sessionId, data)
    /\ ingested' = ingested \cup {data.sessionId}
    /\ UNCHANGED <<activeSessions, now, nextSweep, connected, rooms, registered, refreshedAt>>
    /\ UNCHANGED evicted
    /\ UNCHANGED serverVars
    /\ UNCHANGED pipelineVars
    /\ UNCHANGED dashboardVars
    /\ UNCHANGED migrationVars

RaceEvent(c, data) ==
    /\ c \in connected
    /\ emitted' = <<Emit(rooms[data.sessionId], "race:event", data), Ack(c, "race_event")>>
    /\ lastEvent' = Event("race_event", c, data.sessionId, data)
    /\ ingested' = ingested \cup {data.sessionId}
    /\ UNCHANGED <<activeSessions, now, nextSweep, connected, rooms, registered, refreshedAt>>
    /\ UNCHANGED evicted
    /\ UNCHANGED serverVars
    /\ UNCHANGED pipelineVars
    /\ UNCHANGED dashboardVars
    /\ UNCHANGED migrationVars

\* steward:action only logs
StewardAction(c) ==
    /\ c \in connected
    /\ emitted' = <<>>
    /\ lastEvent' = Event("steward:action", c, "none", <<>>)
    /\ UNCHANGED <<activeSessions, now, nextSweep, connected, rooms, ingested, registered, refreshedAt>>
    /\ UNCHANGED evicted
    /\ UNCHANGED serverVars
    /\ UNCHANGED pipelineVars
    /\ UNCHANGED dashboardVars
    /\ UNCHANGED migrationVars

\* The REST layer calls getActiveSessions().
ListActiveSessions ==
    /\ emitted' = <<>>
    /\ lastEvent' = Event("getActiveSessions", "none", "none",
                           [called |-> activeSessions,
                            returned |-> GetActiveSessions(activeSessions)])
    /\ UNCHANGED <<activeSessions, now, nextSweep, connected, rooms, ingested, registered, refreshedAt>>
    /\ UNCHANGED evicted
    /\ UNCHANGED serverVars
    /\ UNCHANGED pipelineVars
    /\ UNCHANGED dashboardVars
    /\ UNCHANGED migrationVars

Tick(t) ==
    /\ t > now
    /\ t <= nextSweep
    /\ \A k \in 1..Len(laterTimers) : t <= laterTimers[k]
    /\ now' = t
    /\ emitted' = <<>>
    /\ lastEvent' = Event("tick", "none", "none", <<>>)
    /\ UNCHANGED <<activeSessions, nextSweep, connected, rooms, ingested, registered, refreshedAt>>
    /\ UNCHANGED evicted
    /\ UNCHANGED serverVars
    /\ UNCHANGED pipelineVars
    /\ UNCHANGED dashboardVars
    /\ UNCHANGED migrationVars

Sweep ==
    /\ now = nextSweep
    /\ activeSessions' = SweepRegistry(activeSessions, now)
    /\ nextSweep' = nextSweep + SweepInterval
    /\ emitted' = <<>>
    /\ lastEvent' = Event("sweep", "none", "none",
                           [removed |-> Remove(activeSessions, DOMAIN activeSessions')])
    /\ ingested' = ingested \ (DOMAIN activeSessions \ DOMAIN activeSessions')
    /\ registered' = registered \ (DOMAIN activeSessions \ DOMAIN activeSessions')
    /\ refreshedAt' = Remove(refreshedAt, DOMAIN activeSessions \ DOMAIN activeSessions')
    /\ evicted' = evicted \cup {s \in DOMAIN activeSessions \ DOMAIN activeSessions' :
                                  HadMetadataAndDrivers(activeSessions[s])}
    /\ UNCHANGED <<now, connected, rooms>>
    /\ UNCHANGED serverVars
    /\ UNCHANGED pipelineVars
    /\ UNCHANGED dashboardVars
    /\ UNCHANGED migrationVars

(***************************************************************************)
(* The module's exported functions around the server object `io`           *)
(***************************************************************************)
\* The exported broadcast functions and the event each of them emits.
BroadcastEvent ==
    [broadcastTimingUpdate    |-> "timing:update",
     broadcastNewIncident     |-> "incident:new",
     broadcastIncidentUpdated |-> "incident:updated",
     broadcastPenaltyProposed |-> "penalty:proposed",
     broadcastPenaltyApproved |-> "penalty:approved",
     broadcastSessionState    |-> "session:state"]

BroadcastFunctions == DOMAIN BroadcastEvent

\* How many setInterval sweep timers are running.  No handle of any of them
\* is kept and the module has no clearInterval, so none ever stops.
SweepTimers == (IF io > 0 THEN 1 ELSE 0) + Len(laterTimers)

\* initializeWebSocket(httpServer): `io = new Server(...)`, the connection
\* handler is registered on it and a sweep timer is started, on every call.
\* The new server has no connection and no room member.
InitializeWebSocket ==
    /\ io < MaxInits
    /\ io' = io + 1
    /\ IF io = 0
          THEN /\ nextSweep' = now + SweepInterval
               /\ laterTimers' = laterTimers
          ELSE /\ nextSweep' = nextSweep
               /\ laterTimers' = Append(laterTimers, now + SweepInterval)
    /\ connected' = {}
    /\ rooms' = [s \in Sessions |-> {}]
    /\ emitted' = <<>>
    /\ lastEvent' = Event("initializeWebSocket", "none", "none", <<>>)
    /\ UNCHANGED <<activeSessions, now, ingested, registered, refreshedAt, evicted>>
    /\ UNCHANGED pipelineVars
    /\ UNCHANGED dashboardVars
    /\ UNCHANGED migrationVars

\* The sweep of a timer started by a later initializeWebSocket call: the
\* same callback over the same registry.
LaterSweep(k) ==
    /\ k \in 1..Len(laterTimers)
    /\ now = laterTimers[k]
    /\ activeSessions' = SweepRegistry(activeSessions, now)
    /\ laterTimers' = [laterTimers EXCEPT ![k] = @ + SweepInterval]
    /\ emitted' = <<>>
    /\ lastEvent' = Event("sweep", "none", "none",
                           [removed |-> Remove(activeSessions, DOMAIN activeSessions')])
    /\ ingested' = ingested \ (DOMAIN activeSessions \ DOMAIN activeSessions')
    /\ registered' = registered \ (DOMAIN activeSessions \ DOMAIN activeSessions')
    /\ refreshedAt' = Remove(refreshedAt, DOMAIN activeSessions \ DOMAIN activeSessions')
    /\ evicted' = evicted \cup {s \in DOMAIN activeSessions \ DOMAIN activeSessions' :
                                  HadMetadataAndDrivers(activeSessions[s])}
    /\ UNCHANGED <<now, nextSweep, connected, rooms, io>>
    /\ UNCHANGED pipelineVars
    /\ UNCHANGED dashboardVars
    /\ UNCHANGED migrationVars

\* getIO(): throws while `io` is undefined, returns it afterwards.
GetIOOutcome(server) == IF server = 0 THEN "threw" ELSE "returned"

GetIO ==
    /\ emitted' = <<>>
    /\ lastEvent' = Event("getIO", "none", "none",
                           [initialized |-> io > 0, outcome |-> GetIOOutcome(io)])
    /\ UNCHANGED <<activeSessions, now, nextSweep, connected, rooms,
                   ingested, registered, refreshedAt>>
    /\ UNCHANGED evicted
    /\ UNCHANGED serverVars
    /\ UNCHANGED pipelineVars
    /\ UNCHANGED dashboardVars
    /\ UNCHANGED migrationVars

\* broadcast*(message): `if (!io) return;` and otherwise one
\* emit to the room of the session.  Either way the call returns normally.
BroadcastOutcome(server) == "returned"

BroadcastEmits(server, fn, sessionId, members) ==
    IF server = 0 THEN <<>>
    ELSE <<Emit(members, BroadcastEvent[fn], [sessionId |-> sessionId])>>

Broadcast(fn, sessionId) ==
    /\ emitted' = BroadcastEmits(io, fn, sessionId, rooms[sessionId])
    /\ lastEvent' = Event(fn, "none", sessionId,
                           [initialized |-> io > 0, outcome |-> BroadcastOutcome(io)])
    /\ UNCHANGED <<activeSessions, now, nextSweep, connected, rooms,
                   ingested, registered, refreshedAt>>
    /\ UNCHANGED evicted
    /\ UNCHANGED serverVars
    /\ UNCHANGED pipelineVars
    /\ UNCHANGED dashboardVars
    /\ UNCHANGED migrationVars

(***************************************************************************)
(* The classification engine                                               *)
(***************************************************************************)
TriggerTypes ==
    {"incident_count_increase", "off_track_detected", "spin_detected",
     "sudden_deceleration", "contact_proximity", "erratic_trajectory"}

\* A trigger kind the switch does not list.
UnknownKind == "pit_entry"

\* Who triggered, who was nearby and with what triggerData: a lone driver with
\* an implausibly negative impact speed and no lap data; two drivers with
\* ordinary values; three drivers, the primary one listed as nearby too, with
\* an implausibly large impact speed; one nearby driver listed twice.
TriggerContexts ==
    {[primaryDriverId |-> "D1", nearbyDriverIds |-> <<>>,
      triggerData |-> [impactSpeed |-> -50, lapNumber |-> Undefined,
                       trackPosition |-> Undefined]],
     [primaryDriverId |-> "D1", nearbyDriverIds |-> <<"D2">>,
      triggerData |-> [impactSpeed |-> 30, lapNumber |-> 5, trackPosition |-> 42]],
     [primaryDriverId |-> "D2", nearbyDriverIds |-> <<"D3", "D2">>,
      triggerData |-> [impactSpeed |-> 250, lapNumber |-> 0, trackPosition |-> 0]],
     [primaryDriverId |-> "D1", nearbyDriverIds |-> <<"D3", "D3">>,
      triggerData |-> [impactSpeed |-> 60, lapNumber |-> 2, trackPosition |-> 10]]}

Triggers ==
    {[type |-> ty, primaryDriverId |-> c.primaryDriverId,
      nearbyDriverIds |-> c.nearbyDriverIds, sessionTimeMs |-> 1000,
      triggerData |-> c.triggerData] :
        ty \in TriggerTypes \cup {UnknownKind}, c \in TriggerContexts}

\* A collaborator's call that throws.
Throws == "throws"

\* Variant: the nearby drivers are not consulted.
mapTriggerToIncidentTypeUnconditional(trigger) ==
    CASE trigger.type = "incident_count_increase" -> "contact"
      [] trigger.type = "off_track_detected" -> "off_track"
      [] trigger.type = "spin_detected" -> "spin"
      [] trigger.type = "sudden_deceleration" -> "contact"
      [] trigger.type = "contact_proximity" -> "contact"
      [] trigger.type = "erratic_trajectory" -> "loss_of_control"
      [] OTHER -> "contact"

mapTriggerToIncidentType(trigger) ==
    CASE trigger.type = "incident_count_increase" ->
            IF Len(trigger.nearbyDriverIds) > 0 THEN "contact" ELSE "off_track"
      [] trigger.type = "off_track_detected" -> "off_track"
      [] trigger.type = "spin_detected" -> "spin"
      [] trigger.type = "sudden_deceleration" ->
            IF Len(trigger.nearbyDriverIds) > 0 THEN "contact" ELSE "loss_of_control"
      [] trigger.type = "contact_proximity" -> "contact"
      [] trigger.type = "erratic_trajectory" -> "loss_of_control"
      [] OTHER -> "contact"

\* Variant: the analyzer is called for every contact, nearby drivers or not.
AnalyzerInvokedForContact(incidentType, trigger) == incidentType = "contact"

\* processTrigger: whether contactAnalyzer.analyzeContact is called
AnalyzerInvoked(incidentType, trigger) ==
    incidentType = "contact" /\ Len(trigger.nearbyDriverIds) > 0

\* SeverityScorer.calculateSeverity: the score, clamped to [0, 100]
Clamp(x) == IF x < 0 THEN 0 ELSE IF x > 100 THEN 100 ELSE x
SeverityScore(trigger, contactType) == Clamp((trigger.triggerData.impactSpeed * 12) \div 10)
SeverityOf(score) == IF score < 34 THEN "light" ELSE IF score < 67 THEN "medium" ELSE "heavy"
calculateSeverity(trigger, contactType) ==
    [severity |-> SeverityOf(SeverityScore(trigger, contactType)),
     score |-> SeverityScore(trigger, contactType)]

\* processTrigger: one element of involvedDrivers, as first built
Involved(id) ==
    [driverId |-> id, driverName |-> <<"Driver ", id>>, carNumber |-> "0",
     role |-> "involved", faultProbability |-> Undefined]

\* processTrigger: the involved drivers list, the primary driver first
InvolvedDrivers(trigger) ==
    <<Involved(trigger.primaryDriverId)>>
        \o [i \in 1..Len(trigger.nearbyDriverIds) |-> Involved(trigger.nearbyDriverIds[i])]

\* Variant: the predictor is called for a lone driver too.
PredictorInvokedAlways(involvedDrivers) == Len(involvedDrivers) > 0

\* processTrigger: whether responsibilityPredictor.predict is called
PredictorInvoked(involvedDrivers) == Len(involvedDrivers) > 1

\* What ResponsibilityPredictor.predict may do for these drivers: return
\* nothing, one prediction per driver, predictions for the other drivers only,
\* or a list naming a driver who is not involved and one driver twice; or throw.
PredictAll(involvedDrivers) ==
    [i \in 1..Len(involvedDrivers) |->
        [driverId |-> involvedDrivers[i].driverId,
         probability |-> IF i = 1 THEN 80 ELSE 20,
         role |-> IF i = 1 THEN "cause" ELSE "victim"]]
PredictorResults(involvedDrivers) ==
    {[throws |-> FALSE, list |-> l] :
        l \in {<<>>, PredictAll(involvedDrivers), Tail(PredictAll(involvedDrivers)),
               <<[driverId |-> "D9", probability |-> 100, role |-> "cause"],
                 [driverId |-> "D2", probability |-> 60, role |-> "cause"],
                 [driverId |-> "D2", probability |-> 40, role |-> "victim"]>>}}
        \cup {[throws |-> TRUE, list |-> <<>>]}

\* What the collaborators do during one invocation: all succeed, or one throws.
Outcomes(trigger) ==
    {[analyzed |-> a, scorerOk |-> TRUE, predicted |-> p] :
        a \in {"rear_end", "divebomb"},
        p \in {r \in PredictorResults(InvolvedDrivers(trigger)) : ~r.throws}}
    \cup
    {[analyzed |-> Throws, scorerOk |-> TRUE, predicted |-> [throws |-> FALSE, list |-> <<>>]],
     [analyzed |-> "side", scorerOk |-> FALSE, predicted |-> [throws |-> FALSE, list |-> <<>>]],
     [analyzed |-> "other", scorerOk |-> TRUE, predicted |-> [throws |-> TRUE, list |-> <<>>]]}

\* Variant: a driver without a prediction is left without a role.
ApplyPredictionsClearing(involvedDrivers, predictions) ==
    [i \in 1..Len(involvedDrivers) |->
        LET found == {k \in 1..Len(predictions) :
                        predictions[k].driverId = involvedDrivers[i].driverId}
        IN  IF found = {} THEN [involvedDrivers[i] EXCEPT !.role = Missing]
            ELSE LET pred == predictions[CHOOSE k \in found : \A j \in found : k <= j]
                 IN  [involvedDrivers[i] EXCEPT !.faultProbability = pred.probability,
                                                !.role = pred.role]]

\* Variant: the list is rebuilt from the predictions.
ApplyPredictionsOnly(involvedDrivers, predictions) ==
    [k \in 1..Len(predictions) |->
        [driverId |-> predictions[k].driverId,
         driverName |-> <<"Driver ", predictions[k].driverId>>, carNumber |-> "0",
         role |-> predictions[k].role, faultProbability |-> predictions[k].probability]]

\* processTrigger: predictions.find(p => p.driverId === driver.driverId), applied
ApplyPredictions(involvedDrivers, predictions) ==
    [i \in 1..Len(involvedDrivers) |->
        LET found == {k \in 1..Len(predictions) :
                        predictions[k].driverId = involvedDrivers[i].driverId}
        IN  IF found = {} THEN involvedDrivers[i]
            ELSE LET pred == predictions[CHOOSE k \in found : \A j \in found : k <= j]
                 IN  [involvedDrivers[i] EXCEPT !.faultProbability = pred.probability,
                                                !.role = pred.role]]

\* (x as number) || 0
OrZero(x) == IF x = Undefined THEN 0 ELSE x

\* Variant: the score is scaled by the number of drivers involved.
BuildIncidentScaled(id, trigger, sessionId, incidentType, contactType, scored, involvedDrivers, t) ==
    [id |-> id, sessionId |-> sessionId, type |-> incidentType,
     contactType |-> contactType, severity |-> scored.severity,
     severityScore |-> scored.score * Len(involvedDrivers),
     lapNumber |-> OrZero(trigger.triggerData.lapNumber),
     sessionTimeMs |-> trigger.sessionTimeMs,
     trackPosition |-> OrZero(trigger.triggerData.trackPosition),
     involvedDrivers |-> involvedDrivers, status |-> "pending",
     replayTimestampMs |-> trigger.sessionTimeMs, createdAt |-> t, updatedAt |-> t]

\* processTrigger: the IncidentEvent handed to incidentRepo.create
BuildIncident(id, trigger, sessionId, incidentType, contactType, scored, involvedDrivers, t) ==
    [id |-> id, sessionId |-> sessionId, type |-> incidentType,
     contactType |-> contactType, severity |-> scored.severity,
     severityScore |-> scored.score,
     lapNumber |-> OrZero(trigger.triggerData.lapNumber),
     sessionTimeMs |-> trigger.sessionTimeMs,
     trackPosition |-> OrZero(trigger.triggerData.trackPosition),
     involvedDrivers |-> involvedDrivers, status |-> "pending",
     replayTimestampMs |-> trigger.sessionTimeMs, createdAt |-> t, updatedAt |-> t]

\* processTrigger up to the call of incidentRepo.create. analyzed, scorerOk and
\* predicted are what the collaborators do when called: a result, or a throw.
Classify(id, trigger, sessionId, analyzed, scorerOk, predicted, t) ==
    LET incidentType == mapTriggerToIncidentType(trigger)
        analyze == AnalyzerInvoked(incidentType, trigger)
        contactType == IF analyze THEN analyzed ELSE Missing
        involved == InvolvedDrivers(trigger)
        predict == PredictorInvoked(involved)
        calledUpTo == [trigger |-> trigger, sessionId |-> sessionId,
                       incidentType |-> incidentType,
                       analyzerCalls |-> IF analyze THEN 1 ELSE 0,
                       scorerCalls |-> 0, predictorCalls |-> 0]
    IN  IF analyze /\ analyzed = Throws
        THEN [stage |-> "threw", called |-> calledUpTo]
        ELSE IF ~scorerOk
        THEN [stage |-> "threw", called |-> [calledUpTo EXCEPT !.scorerCalls = 1]]
        ELSE IF predict /\ predicted.throws
        THEN [stage |-> "threw",
              called |-> [calledUpTo EXCEPT !.scorerCalls = 1, !.predictorCalls = 1]]
        ELSE [stage |-> "created",
              called |-> [calledUpTo EXCEPT !.scorerCalls = 1,
                                            !.predictorCalls = IF predict THEN 1 ELSE 0],
              incident |->
                 BuildIncident(id, trigger, sessionId, incidentType, contactType,
                               calculateSeverity(trigger, contactType),
                               IF predict THEN ApplyPredictions(involved, predicted.list)
                               ELSE involved,
                               t)]

\* Variant: without the try/catch the exception rejects the promise.
ThrewCallRejecting(id) ==
    [id |-> id, pc |-> "returned", creates |-> 0, persisted |-> FALSE,
     emits |-> 0, result |-> "rejected"]

\* An invocation whose synchronous part threw: the catch block returns null.
ThrewCall(id) ==
    [id |-> id, pc |-> "returned", creates |-> 0, persisted |-> FALSE,
     emits |-> 0, result |-> "null"]

\* An invocation suspended at await incidentRepo.create(incident).
AwaitingCall(id) ==
    [id |-> id, pc |-> "awaiting", creates |-> 1, persisted |-> FALSE,
     emits |-> 0, result |-> "pending"]

\* Variant: the incident is emitted before and after the log line.
OnCreateResolvedTwice(call, listenerOk) ==
    [call EXCEPT !.pc = "returned", !.persisted = TRUE, !.emits = @ + 2,
                 !.result = IF listenerOk THEN "saved" ELSE "null"]

\* create resolved: emit 'incident:classified', return saved; a listener that
\* throws lands in the catch block.
OnCreateResolved(call, listenerOk) ==
    [call EXCEPT !.pc = "returned", !.persisted = TRUE, !.emits = @ + 1,
                 !.result = IF listenerOk THEN "saved" ELSE "null"]

\* Variant: the catch block calls create once more.
OnCreateRejectedRetries(call) ==
    [call EXCEPT !.pc = "returned", !.creates = @ + 1, !.result = "null"]

\* Variant: the catch block emits the unsaved incident.
OnCreateRejectedEmits(call) ==
    [call EXCEPT !.pc = "returned", !.emits = @ + 1, !.result = "null"]

\* create rejected: the catch block logs and returns null.
OnCreateRejected(call) ==
    [call EXCEPT !.pc = "returned", !.result = "null"]

Invoke(trigger, sessionId, analyzed, scorerOk, predicted) ==
    /\ Len(calls) < MaxCalls
    /\ LET id == Len(calls) + 1
           outcome == Classify(id, trigger, sessionId, analyzed, scorerOk, predicted, now)
       IN  /\ built' = outcome
           /\ calls' = Append(calls, IF outcome.stage = "created" THEN AwaitingCall(id)
                                     ELSE ThrewCall(id))
           /\ createLog' = IF outcome.stage = "created" THEN Append(createLog, id)
                           ELSE createLog
    /\ UNCHANGED emitLog
    /\ UNCHANGED gatewayVars
    /\ UNCHANGED dashboardVars
    /\ UNCHANGED migrationVars

CreateResolved(i, listenerOk) ==
    /\ i \in 1..Len(calls)
    /\ calls[i].pc = "awaiting"
    /\ calls' = [calls EXCEPT ![i] = OnCreateResolved(@, listenerOk)]
    /\ emitLog' = emitLog \o [k \in 1..(calls'[i].emits - calls[i].emits) |-> i]
    /\ UNCHANGED <<built, createLog>>
    /\ UNCHANGED gatewayVars
    /\ UNCHANGED dashboardVars
    /\ UNCHANGED migrationVars

CreateRejected(i) ==
    /\ i \in 1..Len(calls)
    /\ calls[i].pc = "awaiting"
    /\ calls' = [calls EXCEPT ![i] = OnCreateRejected(@)]
    /\ emitLog' = emitLog \o [k \in 1..(calls'[i].emits - calls[i].emits) |-> i]
    /\ createLog' = createLog \o [k \in 1..(calls'[i].creates - calls[i].creates) |-> i]
    /\ UNCHANGED built
    /\ UNCHANGED gatewayVars
    /\ UNCHANGED dashboardVars
    /\ UNCHANGED migrationVars

(***************************************************************************)
(* The dashboard's session store                                           *)
(***************************************************************************)
\* currentSession: null, or the session with this id.
NoSession == "null"
CurrentSessionId(st) == IF st.currentSession = NoSession THEN Missing ELSE st.currentSession

TimingEntry(d, pos) == [driverId |-> d, position |-> pos]

\* The timing lists of messages and of updateTiming calls.
EntryLists ==
    {<<>>, <<TimingEntry("D1", 1)>>, <<TimingEntry("D2", 1), TimingEntry("D1", 2)>>}

\* message.timing of a 'timing:update' message: absent, without entries, or
\* with an entries list.
TimingPayloads ==
    {[given |-> FALSE, entriesGiven |-> FALSE, entries |-> <<>>],
     [given |-> TRUE, entriesGiven |-> FALSE, entries |-> <<>>]}
    \cup {[given |-> TRUE, entriesGiven |-> TRUE, entries |-> l] : l \in EntryLists}

TimingMessages == {[sessionId |-> s, timing |-> t] : s \in Sessions, t \in TimingPayloads}

DriverLists == {<<>>, <<"D1">>}

InitialStore ==
    [currentSession |-> NoSession, drivers |-> <<>>, timing |-> <<>>,
     isConnected |-> FALSE, connectionStatus |-> "disconnected",
     connectionError |-> "null"]

\* Variant: the callback takes the timing list of any session's message.
ApplyTimingUpdateAnySession(st, message) ==
    IF message.timing.given
    THEN [st EXCEPT !.timing = IF message.timing.entriesGiven
                               THEN message.timing.entries ELSE <<>>]
    ELSE st

\* onTimingUpdate: if (message.sessionId === currentSession?.id &&
\* message.timing) set({ timing: message.timing.entries || [] })
ApplyTimingUpdate(st, message) ==
    IF message.sessionId = CurrentSessionId(st) /\ message.timing.given
    THEN [st EXCEPT !.timing = IF message.timing.entriesGiven
                               THEN message.timing.entries ELSE <<>>]
    ELSE st

\* updateDriverTiming: merge the entry into the one of the driver, or append.
MergeDriverTiming(timing, driverId, pos) ==
    IF \E i \in 1..Len(timing) : timing[i].driverId = driverId
    THEN LET index == CHOOSE i \in 1..Len(timing) :
                         /\ timing[i].driverId = driverId
                         /\ \A j \in 1..(i - 1) : timing[j].driverId # driverId
         IN  [timing EXCEPT ![index] = [@ EXCEPT !.position = pos]]
    ELSE Append(timing, TimingEntry(driverId, pos))

\* The most recent of setCurrentSession, leaveSession and disconnect.
SessionWrites == {"setCurrentSession", "leaveSession", "disconnect"}

StoreEvent(name, input) ==
    [name |-> name, input |-> input,
     lastSessionWrite |-> IF name \in SessionWrites THEN name
                          ELSE storeEvent.lastSessionWrite]

StoreStep(name, input, st) ==
    /\ store' = st
    /\ storeEvent' = StoreEvent(name, input)
    /\ UNCHANGED gatewayVars
    /\ UNCHANGED pipelineVars
    /\ UNCHANGED migrationVars

setCurrentSession(session) ==
    /\ StoreStep("setCurrentSession", session, [store EXCEPT !.currentSession = session])
    /\ UNCHANGED listeners

setDrivers(drivers) ==
    /\ StoreStep("setDrivers", drivers, [store EXCEPT !.drivers = drivers])
    /\ UNCHANGED listeners

updateTiming(timing) ==
    /\ StoreStep("updateTiming", timing, [store EXCEPT !.timing = timing])
    /\ UNCHANGED listeners

updateDriverTiming(driverId, pos) ==
    /\ StoreStep("updateDriverTiming", <<driverId, pos>>,
                 [store EXCEPT !.timing = MergeDriverTiming(@, driverId, pos)])
    /\ UNCHANGED listeners

\* connect(): registers the four callbacks and calls socketClient.connect().
connect ==
    /\ StoreStep("connect", <<>>, store)
    /\ listeners' = listeners \cup {"connect"}

initializeListeners ==
    /\ StoreStep("initializeListeners", <<>>, store)
    /\ listeners' = listeners \cup {"initializeListeners"}

disconnect ==
    /\ StoreStep("disconnect", <<>>,
                 [store EXCEPT !.isConnected = FALSE, !.currentSession = NoSession,
                               !.drivers = <<>>, !.timing = <<>>])
    /\ UNCHANGED listeners

\* joinSession only asks the socket client to join the room.
joinSession(sessionId) ==
    /\ StoreStep("joinSession", sessionId, store)
    /\ UNCHANGED listeners

leaveSession ==
    /\ StoreStep("leaveSession", <<>>,
                 [store EXCEPT !.currentSession = NoSession,
                               !.drivers = <<>>, !.timing = <<>>])
    /\ UNCHANGED listeners

\* The socket callbacks, run for a registered listener.
onConnect(by) ==
    /\ by \in listeners
    /\ StoreStep("onConnect", by,
                 IF by = "connect"
                 THEN [store EXCEPT !.isConnected = TRUE, !.connectionError = "null"]
                 ELSE [store EXCEPT !.isConnected = TRUE, !.connectionStatus = "connected",
                                    !.connectionError = "null"])
    /\ UNCHANGED listeners

onDisconnect(by) ==
    /\ by \in listeners
    /\ StoreStep("onDisconnect", by,
                 IF by = "connect"
                 THEN [store EXCEPT !.isConnected = FALSE]
                 ELSE [store EXCEPT !.isConnected = FALSE,
                                    !.connectionStatus = "disconnected"])
    /\ UNCHANGED listeners

onTimingUpdate(message) ==
    /\ listeners # {}
    /\ StoreStep("onTimingUpdate", message, ApplyTimingUpdate(store, message))
    /\ UNCHANGED listeners

DashboardInit ==
    /\ store = InitialStore
    /\ listeners = {}
    /\ storeEvent = [name |-> "none", input |-> <<>>, lastSessionWrite |-> "none"]

(***************************************************************************)
(* The migrations runner                                                   *)
(***************************************************************************)
\* The entries of the migrations directory.  rank is the place of the name
\* in the order of Array.prototype.sort() (by UTF-16 code units).
DirectoryEntries ==
    {[name |-> "010_seed.sql", ext |-> "sql", rank |-> 3],
     [name |-> "001_init.sql", ext |-> "sql", rank |-> 1],
     [name |-> "README.md", ext |-> "md", rank |-> 4],
     [name |-> "002_users.sql", ext |-> "sql", rank |-> 2]}

RankOf(name) == (CHOOSE e \in DirectoryEntries : e.name = name).rank

\* What existsSync and readdirSync find.
DirectoryStates == {"missing", "unreadable", "empty", "listed"}
Listing(dir) == IF dir = "listed" THEN DirectoryEntries ELSE {}

\* The names of the entries, smallest first.
RECURSIVE SortedNames(_)
SortedNames(entries) ==
    IF entries = {} THEN <<>>
    ELSE LET first == CHOOSE e \in entries : \A o \in entries : e.rank <= o.rank
         IN  <<first.name>> \o SortedNames(entries \ {first})

\* readdirSync(dir).filter(f => f.endsWith('.sql')).sort()
MigrationFiles(dir) == SortedNames({e \in Listing(dir) : e.ext = "sql"})

\* The two runners: with the catch block around the whole body, and without.
Variants == {"resilient", "plain"}

\* Where the work on a file can fail: the SELECT, readFileSync, BEGIN, the
\* file's SQL, the INSERT, COMMIT.
FileOutcomes ==
    {"ok", "selectFails", "readFails", "beginFails", "sqlFails", "insertFails",
     "commitFails"}

NoRun ==
    [number |-> 0, variant |-> "none", pc |-> "idle", client |-> "none",
     files |-> <<>>, before |-> {}, remaining |-> <<>>, appliedInRun |-> <<>>,
     failed |-> "none", rolledBack |-> "none", error |-> FALSE, result |-> "none"]

\* The promise of a run that ends with or without an error.
Outcome(variant, error) ==
    IF error /\ variant = "plain" THEN "rejected" ELSE "resolved"

\* pool.connect() rejected: no client; the resilient runner logs it.
ConnectFailed(r) ==
    [r EXCEPT !.pc = "done", !.client = "none", !.error = TRUE,
              !.result = Outcome(r.variant, TRUE)]

\* The end of a run that holds a client: finally releases it.
Finished(r, error) ==
    [r EXCEPT !.pc = "done", !.client = "released", !.error = error,
              !.result = Outcome(r.variant, error)]

\* The failures of a file inside its transaction: the inner catch block
\* issues ROLLBACK for them.  BEGIN and what precedes it are outside.
InTransaction == {"sqlFails", "insertFails", "commitFails"}

\* Variant: the error of a file is logged and the loop goes on.
AfterFileFailedContinue(r, file, outcome) ==
    [r EXCEPT !.failed = file, !.remaining = Tail(@),
              !.rolledBack = IF outcome \in InTransaction THEN file ELSE @]

\* The work on a file threw: ROLLBACK where the transaction was open, then
\* the error is thrown on and ends the loop.
AfterFileFailed(r, file, outcome) ==
    Finished([r EXCEPT !.failed = file,
                       !.rolledBack = IF outcome \in InTransaction THEN file ELSE @],
             TRUE)

\* runMigrations() up to the loop over the files.
StartRun(variant, connectOk, tableOk, dir) ==
    /\ run.pc \in {"idle", "done"}
    /\ run.number < MaxRuns
    /\ LET r == [NoRun EXCEPT !.number = run.number + 1, !.variant = variant,
                              !.before = recorded]
           held == [r EXCEPT !.client = "held", !.result = "pending"]
           files == MigrationFiles(dir)
       IN  run' = IF ~connectOk THEN ConnectFailed(r)
                  ELSE IF ~tableOk THEN Finished(held, TRUE)
                  ELSE IF files = <<>> THEN Finished(held, FALSE)
                  ELSE [held EXCEPT !.pc = "loop", !.files = files, !.remaining = files]
    /\ UNCHANGED <<applied, recorded>>
    /\ UNCHANGED gatewayVars
    /\ UNCHANGED pipelineVars
    /\ UNCHANGED dashboardVars

\* One iteration of the loop: the file is skipped when its name is
\* recorded, else its SQL and its record are committed in one transaction.
\* A ROLLBACK that fails throws its own error in the place of the file's:
\* the run ends the same way and the open transaction is never committed.
FileStep(outcome, rollbackOk) ==
    /\ run.pc = "loop"
    /\ run.remaining # <<>>
    /\ LET file == Head(run.remaining)
       IN  IF outcome = "selectFails"
           THEN /\ run' = AfterFileFailed(run, file, outcome)
                /\ UNCHANGED <<applied, recorded>>
           ELSE IF file \in recorded
           THEN /\ outcome = "ok"
                /\ run' = [run EXCEPT !.remaining = Tail(@)]
                /\ UNCHANGED <<applied, recorded>>
           ELSE IF outcome = "ok"
           THEN /\ applied' = applied \cup {file}
                /\ recorded' = recorded \cup {file}
                /\ run' = [run EXCEPT !.remaining = Tail(@),
                                      !.appliedInRun = Append(@, file)]
           ELSE /\ run' = AfterFileFailed(run, file, outcome)
                /\ UNCHANGED <<applied, recorded>>
    /\ UNCHANGED gatewayVars
    /\ UNCHANGED pipelineVars
    /\ UNCHANGED dashboardVars

\* The loop is over: finally, return.
LoopExit ==
    /\ run.pc = "loop"
    /\ run.remaining = <<>>
    /\ run' = Finished(run, run.error)
    /\ UNCHANGED <<applied, recorded>>
    /\ UNCHANGED gatewayVars
    /\ UNCHANGED pipelineVars
    /\ UNCHANGED dashboardVars

MigrationInit ==
    /\ applied = {}
    /\ recorded = {}
    /\ run = NoRun

GatewayInit ==
    /\ activeSessions = EmptyMap
    /\ now = 0
    /\ nextSweep = SweepInterval
    /\ connected = {}
    /\ rooms = [s \in Sessions |-> {}]
    /\ emitted = <<>>
    /\ lastEvent = NoEvent
    /\ ingested = {}
    /\ registered = {}
    /\ refreshedAt = EmptyMap
    /\ evicted = {}
    /\ io = 1
    /\ laterTimers = <<>>

PipelineInit ==
    /\ calls = <<>>
    /\ built = [stage |-> "none"]
    /\ createLog = <<>>
    /\ emitLog = <<>>

Init == GatewayInit /\ PipelineInit /\ DashboardInit /\ MigrationInit

\* The relay's events, the REST layer's reads, the clock and the sweep timer.
Next ==
    \/ \E c \in Relays : Connect(c)
    \/ \E c \in Relays, s \in Sessions, tn \in TrackNames, st \in SessionTypes :
          SessionMetadata(c, [sessionId |-> s, trackName |-> tn, sessionType |-> st])
    \/ \E c \in Relays, s \in Sessions, f \in Frames : Telemetry(c, s, f)
    \/ \E c \in Relays, d \in MinimalIncidents : Incident(c, d)
    \/ \E c \in Relays, d \in RaceEvents : RaceEvent(c, d)
    \/ ListActiveSessions
    \/ \E t \in Instants : Tick(t)
    \/ Sweep

Spec == Init /\ [][Next]_vars

\* Relay and dashboard connections and their rooms, with the clock stopped.
RoomNext ==
    \/ \E c \in Sockets : Connect(c)
    \/ \E c \in Sockets : Disconnect(c)
    \/ \E c \in Sockets, s \in Sessions : RoomJoin(c, s)
    \/ \E c \in Sockets, s \in Sessions : RoomLeave(c, s)
    \/ \E c \in Sockets : StewardAction(c)
    \/ \E c \in Relays, s \in Sessions, tn \in TrackNames, st \in SessionTypes :
          SessionMetadata(c, [sessionId |-> s, trackName |-> tn, sessionType |-> st])
    \/ \E c \in Relays, s \in Sessions, f \in Frames : Telemetry(c, s, f)
    \/ \E c \in Relays, d \in Incidents : Incident(c, d)
    \/ \E c \in Relays, d \in RaceEvents : RaceEvent(c, d)

RoomSpec == Init /\ [][RoomNext]_vars

\* Several connections sending telemetry for the same sessions; each handler
\* runs to completion before the next one starts.
RelayNext ==
    \/ \E c \in Sockets : Connect(c)
    \/ \E c \in Sockets, s \in Sessions : \E f \in FramesOf(c) : Telemetry(c, s, f)

RelaySpec == Init /\ [][RelayNext]_vars

\* processTrigger invocations and the completion of their create calls.
PipelineNext ==
    \/ \E trigger \in Triggers, sessionId \in {"S1"} :
          \E o \in Outcomes(trigger) :
             Invoke(trigger, sessionId, o.analyzed, o.scorerOk, o.predicted)
    \/ \E i \in 1..MaxCalls, listenerOk \in BOOLEAN : CreateResolved(i, listenerOk)
    \/ \E i \in 1..MaxCalls : CreateRejected(i)

PipelineSpec == Init /\ [][PipelineNext]_vars

\* The two producers of incidents: the relay's incident event, broadcast by
\* the gateway, and processTrigger up to its create call.
IncidentNext ==
    \/ \E c \in Relays : Connect(c)
    \/ \E c \in Relays, d \in Incidents : Incident(c, d)
    \/ \E trigger \in Triggers, sessionId \in {"S1"} :
          \E o \in Outcomes(trigger) :
             Invoke(trigger, sessionId, o.analyzed, o.scorerOk, o.predicted)

IncidentSpec == Init /\ [][IncidentNext]_vars

\* Dashboards joining the room of a session that the relay registers and
\* the sweep removes.
JoinNext ==
    \/ \E c \in Sockets : Connect(c)
    \/ \E c \in Sockets, s \in Sessions : RoomJoin(c, s)
    \/ \E c \in Relays, tn \in TrackNames, st \in SessionTypes :
          SessionMetadata(c, [sessionId |-> "S1", trackName |-> tn, sessionType |-> st])
    \/ \E c \in Relays, f \in Frames : Telemetry(c, "S1", f)
    \/ \E t \in Instants : Tick(t)
    \/ Sweep

JoinSpec == Init /\ [][JoinNext]_vars

\* The module from the moment it is loaded: its exported functions, the
\* clock and the sweep timers; no connection is made.
ModuleLoaded ==
    /\ activeSessions = EmptyMap
    /\ now = 0
    /\ nextSweep = Undefined
    /\ connected = {}
    /\ rooms = [s \in Sessions |-> {}]
    /\ emitted = <<>>
    /\ lastEvent = NoEvent
    /\ ingested = {}
    /\ registered = {}
    /\ refreshedAt = EmptyMap
    /\ evicted = {}
    /\ io = 0
    /\ laterTimers = <<>>

LifecycleInit == ModuleLoaded /\ PipelineInit /\ DashboardInit /\ MigrationInit

LifecycleNext ==
    \/ InitializeWebSocket
    \/ GetIO
    \/ \E fn \in BroadcastFunctions, s \in Sessions : Broadcast(fn, s)
    \/ \E t \in Instants : Tick(t)
    \/ Sweep
    \/ \E k \in 1..MaxInits : LaterSweep(k)

LifecycleSpec == LifecycleInit /\ [][LifecycleNext]_vars

\* The dashboard's store under its actions and the messages of its socket.
StoreNext ==
    \/ \E session \in Sessions \cup {NoSession} : setCurrentSession(session)
    \/ \E drivers \in DriverLists : setDrivers(drivers)
    \/ \E timing \in EntryLists : updateTiming(timing)
    \/ updateDriverTiming("D1", 3)
    \/ connect
    \/ initializeListeners
    \/ disconnect
    \/ \E sessionId \in Sessions : joinSession(sessionId)
    \/ leaveSession
    \/ \E by \in {"connect", "initializeListeners"} : onConnect(by)
    \/ \E by \in {"connect", "initializeListeners"} : onDisconnect(by)
    \/ \E message \in TimingMessages : onTimingUpdate(message)

StoreSpec == Init /\ [][StoreNext]_vars

\* Runs of the migrations runner, one after the other, over one database.
MigrationNext ==
    \/ \E variant \in Variants, connectOk \in BOOLEAN, tableOk \in BOOLEAN,
          dir \in DirectoryStates : StartRun(variant, connectOk, tableOk, dir)
    \/ \E outcome \in FileOutcomes, rollbackOk \in BOOLEAN : FileStep(outcome, rollbackOk)
    \/ LoopExit

MigrationSpec == Init /\ [][MigrationNext]_vars

(***************************************************************************)
(* Properties of the gateway (Spec, RoomSpec, RelaySpec)                   *)
(***************************************************************************)
DistinctDriverIds(frame) ==
    {FrameDrivers(frame)[i].driverId : i \in 1..Len(FrameDrivers(frame))}

\* C1: session_metadata for a session that already has an entry leaves that
\* entry's driver map as it was.
C1_MetadataKeepsDrivers ==
    [][(lastEvent'.name = "session_metadata"
            /\ lastEvent'.sessionId \in DOMAIN activeSessions)
        => activeSessions'[lastEvent'.sessionId].drivers
              = activeSessions[lastEvent'.sessionId].drivers]_vars

\* C2: the telemetry handler accepts every frame for a session that has no
\* entry, and right after such a frame getActiveSessions() lists that session
\* with trackName "Unknown Track", sessionType "race" and as many drivers as
\* the frame has distinct driverIds.
C2_TelemetryAutoCreates ==
    /\ \A c \in connected, s \in Sessions \ DOMAIN activeSessions, f \in Frames :
          ENABLED Telemetry(c, s, f)
    /\ (lastEvent.name = "telemetry" /\ lastEvent.data.unseen)
          => [sessionId |-> lastEvent.sessionId, trackName |-> "Unknown Track",
              sessionType |-> "race",
              driverCount |-> Cardinality(DistinctDriverIds(lastEvent.data.frame)),
              lastUpdate |-> now] \in GetActiveSessions(activeSessions)

\* C2 witness: a frame of three records naming two drivers created the entry.
C2_Witness ==
    /\ lastEvent.name = "telemetry"
    /\ lastEvent.data.unseen
    /\ Len(FrameDrivers(lastEvent.data.frame)) = 3
    /\ \E e \in GetActiveSessions(activeSessions) :
          e.sessionId = lastEvent.sessionId /\ e.driverCount = 2
              /\ e.trackName = "Unknown Track"

\* C3: a sweep at time now removes exactly the entries with
\* now - lastUpdate > 60000; an entry that is exactly 60000 ms old stays.
C3_SweepRemovesExactlyStale ==
    [][lastEvent'.name = "sweep"
        => DOMAIN activeSessions'
              = {s \in DOMAIN activeSessions : now - activeSessions[s].lastUpdate <= 60000}]_vars

\* C3 witness: the sweep removed a session updated 61 s before and kept one
\* updated 10 s before.
C3_Witness ==
    /\ lastEvent.name = "sweep"
    /\ \E s \in DOMAIN lastEvent.data.removed :
          now - lastEvent.data.removed[s].lastUpdate = 61000
    /\ \E s \in DOMAIN activeSessions : now - activeSessions[s].lastUpdate = 10000

\* C4 as claimed: a session has an entry iff some ingest event of any kind
\* (session_metadata, telemetry, incident, race_event) named it since the
\* sweep last removed it.
C4_EntryIffIngested == DOMAIN activeSessions = ingested

\* C4: a session has an entry iff a session_metadata or telemetry event named
\* it since the sweep last removed it.
C4_EntryIffRegistered == DOMAIN activeSessions = registered

\* C4 witness: an incident for a session without an entry, beside a session
\* that has one.
C4_Witness ==
    /\ lastEvent.name = "incident"
    /\ lastEvent.sessionId \notin DOMAIN activeSessions
    /\ lastEvent.sessionId \in ingested
    /\ \E s \in DOMAIN activeSessions : s \in registered

\* The drivers a frame names, and for each the last record that names it.
NamedIn(list) == {list[i].driverId : i \in 1..Len(list)}

LastNaming(list, d) ==
    list[CHOOSE k \in 1..Len(list) :
            /\ list[k].driverId = d
            /\ \A j \in (k + 1)..Len(list) : list[j].driverId # d]

DriversOf(reg, s) == IF s \in DOMAIN reg THEN reg[s].drivers ELSE EmptyMap

\* C12: a telemetry frame leaves every driver it names with the snapshot of
\* the frame's last record for that driver, and every other driver of the
\* session with the snapshot they had before the frame.
C12_LastWriteWinsPerDriver ==
    [][lastEvent'.name = "telemetry"
        => LET s == lastEvent'.sessionId
               list == FrameDrivers(lastEvent'.data.frame)
               before == DriversOf(activeSessions, s)
               after == DriversOf(activeSessions', s)
           IN  /\ s \in DOMAIN activeSessions'
               /\ DOMAIN after = DOMAIN before \cup NamedIn(list)
               /\ \A d \in NamedIn(list) :
                     after[d] = [driverId |-> d,
                                 driverName |-> LastNaming(list, d).driverName,
                                 carNumber |-> LastNaming(list, d).carNumber,
                                 lapDistPct |-> LastNaming(list, d).lapDistPct]
               /\ \A d \in DOMAIN before \ NamedIn(list) : after[d] = before[d]]_vars

\* C12 witness: a frame naming only D1 arrived for a session that had D1 and
\* D2; D1 has the new snapshot and D2 the one from the earlier frame.
C12_Witness ==
    /\ lastEvent.name = "telemetry"
    /\ ~lastEvent.data.unseen
    /\ NamedIn(FrameDrivers(lastEvent.data.frame)) = {"D1"}
    /\ DOMAIN activeSessions[lastEvent.sessionId].drivers = {"D1", "D2"}
    /\ activeSessions[lastEvent.sessionId].drivers["D1"].lapDistPct = 42
    /\ activeSessions[lastEvent.sessionId].drivers["D2"].lapDistPct = 42

\* The 'timing:update' emitted by the telemetry handler that ran last.
TimingUpdate == emitted[1]

AckedEvents == {"session_metadata", "incident", "race_event"}

Broadcasts == {"session:active", "incident:new", "race:event"}

AcksEmitted == {k \in 1..Len(emitted) : emitted[k].event = "ack"}

\* C14: the handler of a session_metadata, incident or race_event event emits
\* its broadcast and then exactly one ack, to the sending connection alone,
\* with originalType the event's name and success true.
C14_AckOnSameConnection ==
    /\ \A k \in AcksEmitted : emitted[k].to = {lastEvent.socket}
    /\ lastEvent.name \in AckedEvents =>
          /\ Len(emitted) = 2
          /\ emitted[1].event \in Broadcasts
          /\ AcksEmitted = {2}
          /\ emitted[2].payload = [originalType |-> lastEvent.name, success |-> TRUE]

\* C14 witness: an incident from relay c1 was broadcast to dashboard c2 in the
\* session's room and acknowledged to c1 only.
C14_Witness ==
    /\ lastEvent.name = "incident"
    /\ lastEvent.socket = "c1"
    /\ "c2" \in connected
    /\ "c2" \in emitted[1].to
    /\ emitted[2].event = "ack"
    /\ emitted[2].to = {"c1"}
    /\ emitted[2].payload.originalType = "incident"

IngestEvents == {"session_metadata", "telemetry", "incident", "race_event"}

RegistryEvents == {"session_metadata", "telemetry"}

\* C15 as claimed: right after an ingest event of any kind for a session that
\* has an entry, the entry's lastUpdate is the time the event was processed.
C15_LastUpdateOfAnyIngest ==
    (lastEvent.name \in IngestEvents /\ lastEvent.sessionId \in DOMAIN activeSessions)
        => activeSessions[lastEvent.sessionId].lastUpdate = now

\* C15: the lastUpdate of every entry is the time at which the most recent
\* session_metadata or telemetry event for its session was processed.
C15_LastUpdateOfRegistryEvents ==
    /\ DOMAIN refreshedAt = DOMAIN activeSessions
    /\ \A s \in DOMAIN activeSessions : activeSessions[s].lastUpdate = refreshedAt[s]

\* C15 witness: 20 s after a session's last frame an incident for it was
\* processed, and its lastUpdate is still the time of the frame.
C15_Witness ==
    /\ lastEvent.name = "incident"
    /\ lastEvent.sessionId \in DOMAIN activeSessions
    /\ now = 50000
    /\ activeSessions[lastEvent.sessionId].lastUpdate = 30000
    /\ DOMAIN activeSessions[lastEvent.sessionId].drivers # {}

\* C16: getActiveSessions() returns one summary per entry of the registry,
\* carrying the entry's sessionId, trackName, sessionType and lastUpdate and
\* the size of its driver map, and leaves the registry as it was.
C16_OneSummaryPerEntry ==
    lastEvent.name = "getActiveSessions" =>
        LET returned == lastEvent.data.returned
        IN  /\ activeSessions = lastEvent.data.called
            /\ Cardinality(returned) = Cardinality(DOMAIN activeSessions)
            /\ \A s \in DOMAIN activeSessions :
                  /\ Cardinality({e \in returned : e.sessionId = s}) = 1
                  /\ \E e \in returned :
                        /\ e.sessionId = activeSessions[s].sessionId
                        /\ e.sessionId = s
                        /\ e.trackName = activeSessions[s].trackName
                        /\ e.sessionType = activeSessions[s].sessionType
                        /\ e.lastUpdate = activeSessions[s].lastUpdate
                        /\ e.driverCount = Cardinality(DOMAIN activeSessions[s].drivers)

\* C16 witness: two sessions listed, one from metadata without drivers yet,
\* one auto-created 20 s later with two drivers.
C16_Witness ==
    /\ lastEvent.name = "getActiveSessions"
    /\ Cardinality(lastEvent.data.returned) = 2
    /\ \E e \in lastEvent.data.returned :
          e.trackName = "Spa" /\ e.driverCount = 0 /\ e.lastUpdate = 0
    /\ \E e \in lastEvent.data.returned :
          e.trackName = "Unknown Track" /\ e.driverCount = 2 /\ e.lastUpdate = 20000

\* C20: whichever connection a telemetry frame comes from, it loses no
\* session and no driver that any earlier frame wrote, leaves the drivers it
\* does not name and the other sessions as they were, and leaves each driver
\* it names with the lap distance of its own last record for that driver.
C20_NoLostUpdateAcrossConnections ==
    [][lastEvent'.name = "telemetry"
        => /\ DOMAIN activeSessions \subseteq DOMAIN activeSessions'
           /\ \A s \in DOMAIN activeSessions' :
                 LET list == IF s = lastEvent'.sessionId
                             THEN FrameDrivers(lastEvent'.data.frame) ELSE <<>>
                     before == DriversOf(activeSessions, s)
                     after == activeSessions'[s].drivers
                 IN  /\ DOMAIN before \cup NamedIn(list) \subseteq DOMAIN after
                     /\ \A d \in DOMAIN after :
                           IF d \in NamedIn(list)
                           THEN after[d].lapDistPct = LastNaming(list, d).lapDistPct
                           ELSE d \in DOMAIN before /\ after[d] = before[d]]_vars

\* C20 witness: frames from both connections for one session; the map has D2
\* from the first connection, D3 from the second, and D1, named by both, as
\* the first connection wrote it last.
C20_Witness ==
    /\ lastEvent.name = "telemetry"
    /\ lastEvent.socket = "c1"
    /\ LET drivers == activeSessions[lastEvent.sessionId].drivers
       IN  /\ DOMAIN drivers = {"D1", "D2", "D3"}
           /\ drivers["D3"].lapDistPct = 55
           /\ drivers["D2"].lapDistPct = 42
           /\ drivers["D1"].lapDistPct = 7

(***************************************************************************)
(* Properties of the classification engine (PipelineSpec)                  *)
(***************************************************************************)
Created == built.stage = "created"

CallIds == 1..Len(calls)

\* create was called and rejected
Rejected(i) == calls[i].pc = "returned" /\ calls[i].creates > 0 /\ ~calls[i].persisted

\* C5: the built incident has a contactType iff its type is contact.
C5_ContactTypeIffContact ==
    Created => (built.incident.contactType # Missing <=> built.incident.type = "contact")

\* C6: an invocation has emitted only if its create call succeeded; one whose
\* create call was rejected has emitted nothing, returned null and called
\* create once.
C6_EmitOnlyAfterPersist ==
    /\ \A k \in 1..Len(emitLog) : calls[emitLog[k]].persisted
    /\ \A i \in CallIds :
          /\ calls[i].emits > 0 => calls[i].persisted
          /\ Rejected(i) =>
                calls[i].emits = 0 /\ calls[i].result = "null" /\ calls[i].creates = 1

\* C6 witness: one invocation's create was rejected, another's succeeded and
\* was emitted.
C6_Witness ==
    \E i, j \in CallIds :
        /\ Rejected(i)
        /\ calls[j].persisted /\ calls[j].emits = 1 /\ calls[j].result = "saved"

\* C7: there are never more emissions than successful create calls; every
\* invocation calls create at most once and emits at most once, and exactly
\* once when its create call succeeded.
C7_EmitAtMostOncePerPersist ==
    /\ Len(emitLog) <= Cardinality({i \in CallIds : calls[i].persisted})
    /\ \A i \in CallIds :
          /\ Cardinality({k \in 1..Len(createLog) : createLog[k] = i}) <= 1
          /\ Cardinality({k \in 1..Len(emitLog) : emitLog[k] = i}) <= 1
          /\ calls[i].creates <= 1
          /\ calls[i].emits <= 1
          /\ calls[i].persisted =>
                Cardinality({k \in 1..Len(emitLog) : emitLog[k] = i}) = 1

\* C7 witness: two create calls, one rejected, one emission.
C7_Witness ==
    /\ Len(createLog) = 2
    /\ Len(emitLog) = 1
    /\ \E i \in CallIds : Rejected(i)

\* C8: involvedDrivers is the primary driver followed by the nearby drivers,
\* in the trigger's order.
C8_InvolvedDriversShape ==
    Created =>
        /\ Len(built.incident.involvedDrivers)
              = 1 + Len(built.called.trigger.nearbyDriverIds)
        /\ built.incident.involvedDrivers[1].driverId
              = built.called.trigger.primaryDriverId
        /\ \A i \in 1..Len(built.called.trigger.nearbyDriverIds) :
              built.incident.involvedDrivers[i + 1].driverId
                 = built.called.trigger.nearbyDriverIds[i]

\* C8 witness: three drivers, and a prediction was applied to one of them.
C8_Witness ==
    /\ Created
    /\ Len(built.called.trigger.nearbyDriverIds) = 2
    /\ built.called.predictorCalls = 1
    /\ \E i \in 1..3 : built.incident.involvedDrivers[i].role # "involved"

C10_PredictionOnlyForSeveral ==
    built.stage # "none" =>
        /\ built.called.predictorCalls > 0
              => 1 + Len(built.called.trigger.nearbyDriverIds) > 1
        /\ Created =>
              /\ (\E i \in 1..Len(built.incident.involvedDrivers) :
                     \/ built.incident.involvedDrivers[i].role # "involved"
                     \/ built.incident.involvedDrivers[i].faultProbability # Undefined)
                    => Len(built.incident.involvedDrivers) > 1
              /\ built.called.trigger.nearbyDriverIds = <<>>
                    => /\ Len(built.incident.involvedDrivers) = 1
                       /\ built.incident.involvedDrivers[1].role = "involved"
                       /\ built.incident.involvedDrivers[1].faultProbability = Undefined

\* C10 witness: off_track_detected by D1 with nobody nearby.
C10_Witness ==
    /\ Created
    /\ built.called.trigger.type = "off_track_detected"
    /\ built.called.trigger.nearbyDriverIds = <<>>
    /\ built.incident.type = "off_track"
    /\ built.incident.involvedDrivers[1].driverId = "D1"
    /\ built.called.predictorCalls = 0

\* C11: mapTriggerToIncidentType returns a type for every trigger, by the
\* table: off_track_detected -> off_track, spin_detected -> spin,
\* contact_proximity -> contact, erratic_trajectory -> loss_of_control,
\* incident_count_increase -> contact with nearby drivers, else off_track,
\* sudden_deceleration -> contact with nearby drivers, else loss_of_control,
\* any other kind -> contact.
C11_TypeMappingTable ==
    built.stage # "none" =>
        LET kind == built.called.trigger.type
            nearby == built.called.trigger.nearbyDriverIds # <<>>
            mapped == built.called.incidentType
        IN  /\ mapped \in {"contact", "off_track", "spin", "loss_of_control"}
            /\ kind = "off_track_detected" => mapped = "off_track"
            /\ kind = "spin_detected" => mapped = "spin"
            /\ kind = "contact_proximity" => mapped = "contact"
            /\ kind = "erratic_trajectory" => mapped = "loss_of_control"
            /\ kind = "incident_count_increase"
                  => mapped = (IF nearby THEN "contact" ELSE "off_track")
            /\ kind = "sudden_deceleration"
                  => mapped = (IF nearby THEN "contact" ELSE "loss_of_control")
            /\ kind \notin TriggerTypes => mapped = "contact"

\* C11 witness: a trigger of a kind the table does not list, by a lone driver,
\* was built into a contact incident.
C11_Witness ==
    /\ Created
    /\ built.called.trigger.type = UnknownKind
    /\ built.called.trigger.nearbyDriverIds = <<>>
    /\ built.called.incidentType = "contact"
    /\ built.incident.type = "contact"

Roles == {"cause", "victim", "involved"}

\* C18: with more than one involved driver, every element of involvedDrivers
\* has a role among cause, victim and involved, with or without a prediction
\* for it, and elements naming the same driver have the same role.
C18_EveryDriverOneRole ==
    (Created /\ Len(built.incident.involvedDrivers) > 1) =>
        LET involved == built.incident.involvedDrivers
        IN  /\ \A i \in 1..Len(involved) : involved[i].role \in Roles
            /\ \A i, j \in 1..Len(involved) :
                  involved[i].driverId = involved[j].driverId
                     => involved[i].role = involved[j].role

\* C18 witness: the primary driver was listed as nearby too; the predictor
\* named that driver the cause and said nothing about the third driver, who
\* stays involved without a fault probability.
C18_Witness ==
    /\ Created
    /\ built.called.predictorCalls = 1
    /\ LET involved == built.incident.involvedDrivers
       IN  /\ Len(involved) = 3
           /\ involved[1].driverId = involved[3].driverId
           /\ involved[1].role = "cause" /\ involved[3].role = "cause"
           /\ involved[2].role = "involved"
           /\ involved[2].faultProbability = Undefined

InOrder(log) == \A k, l \in 1..Len(log) : k < l => log[k] < log[l]

\* C19 as claimed: of two invocations for the same session, the earlier one's
\* create call and emission come before the later one's.
C19_CreateAndEmitInInvocationOrder == InOrder(createLog) /\ InOrder(emitLog)

\* C19: of two invocations for the same session, the earlier one's create
\* call comes before the later one's; an invocation emits after its own
\* create call, whatever the other invocations have done.
C19_CreateInInvocationOrder ==
    /\ InOrder(createLog)
    /\ \A k \in 1..Len(emitLog) : \E l \in 1..Len(createLog) : createLog[l] = emitLog[k]
    /\ \A i, j \in CallIds :
          (i < j /\ calls[i].creates > 0 /\ calls[j].creates > 0)
             => \E k, l \in 1..Len(createLog) :
                   k < l /\ createLog[k] = i /\ createLog[l] = j

\* C19 witness: two invocations for session S1 called create in order, the
\* second one's create resolved first, and the emissions are in that order.
C19_Witness ==
    /\ createLog = <<1, 2>>
    /\ emitLog = <<2, 1>>
    /\ built.called.sessionId = "S1"

(***************************************************************************)
(* Properties of both producers of incidents (IncidentSpec)                *)
(***************************************************************************)
IncidentsBroadcast ==
    {emitted[k].payload.incident : k \in {j \in 1..Len(emitted) : emitted[j].event = "incident:new"}}

\* C17: the incident processTrigger hands to incidentRepo.create and the
\* incident the gateway broadcasts as 'incident:new' both have status pending.
C17_StatusPending ==
    /\ Created => built.incident.status = "pending"
    /\ \A incident \in IncidentsBroadcast : incident.status = "pending"

\* C17 witness: a classified contact incident awaits persistence while the
\* gateway has just broadcast a relay's incident with defaulted severity;
\* both are pending.
C17_Witness ==
    /\ Created
    /\ built.incident.type = "contact"
    /\ built.incident.status = "pending"
    /\ \E i \in CallIds : calls[i].pc = "awaiting"
    /\ lastEvent.name = "incident"
    /\ \E incident \in IncidentsBroadcast :
          incident.severity = "medium" /\ incident.status = "pending"

(***************************************************************************)
(* Properties of the module's lifecycle (LifecycleSpec)                    *)
(***************************************************************************)
\* C21: at most one periodic sweep timer exists at any time, however many
\* times initializeWebSocket is called (and a shutdown could cancel it).
\* The module keeps no timer handle and has no shutdown: a second call of
\* initializeWebSocket leaves two timers running for ever.
C21_AtMostOneSweepTimer == SweepTimers <= 1

\* C22: getIO and every broadcast function called before initializeWebSocket
\* raise an error instead of returning normally.  getIO does; the six
\* broadcast functions return without emitting.
C22_UninitializedCallRaises ==
    (/\ lastEvent.name \in BroadcastFunctions \cup {"getIO"}
     /\ ~lastEvent.data.initialized)
        => lastEvent.data.outcome = "threw"

(***************************************************************************)
(* Properties of rooms and delivery (RoomSpec)                             *)
(***************************************************************************)
RoomScopedEvents == {"timing:update", "incident:new", "race:event"}

\* C23: a 'timing:update', 'incident:new' or 'race:event' for session S goes
\* to exactly the members of room session:S at the time of the emit, so a
\* connection outside the room receives none of them; 'session:active' goes
\* to every connected client.
C23_RoomScopedDelivery ==
    \A k \in 1..Len(emitted) :
        /\ emitted[k].event \in RoomScopedEvents
              => emitted[k].to = rooms[emitted[k].payload.sessionId]
        /\ emitted[k].event = "session:active" => emitted[k].to = connected

\* A timing update for S1 reaches the relay in the room and not the
\* connected dashboard that is in the room of S2 only.
C23_Witness ==
    /\ lastEvent.name = "telemetry"
    /\ lastEvent.sessionId = "S1"
    /\ "c2" \in connected
    /\ "c2" \in rooms["S2"]
    /\ "c2" \notin rooms["S1"]
    /\ Len(emitted) = 1
    /\ emitted[1].event = "timing:update"
    /\ emitted[1].to = {"c1"}

RelayEvents == {"telemetry", "incident", "race_event"}

\* C24: the handler of a connection's session_metadata for S leaves the
\* connection in room session:S; a connection leaves a room only by its own
\* room:leave for that session or by disconnecting; and a member that sends
\* telemetry, incident or race_event for S is among the recipients of the
\* room-scoped broadcast its own event causes.
C24_MetadataSenderStaysMember ==
    [][/\ lastEvent'.name = "session_metadata"
            => lastEvent'.socket \in rooms'[lastEvent'.sessionId]
       /\ \A c \in Sockets, s \in Sessions :
             (c \in rooms[s] /\ c \notin rooms'[s])
                => \/ /\ lastEvent'.name = "room:leave"
                      /\ lastEvent'.socket = c
                      /\ lastEvent'.sessionId = s
                   \/ /\ lastEvent'.name = "disconnect"
                      /\ lastEvent'.socket = c
       /\ (/\ lastEvent'.name \in RelayEvents
           /\ lastEvent'.socket \in rooms[lastEvent'.sessionId])
             => /\ emitted'[1].event \in RoomScopedEvents
                /\ lastEvent'.socket \in emitted'[1].to]_vars

\* The relay whose session_metadata registered S1 receives the timing update
\* that its own later frame causes.
C24_Witness ==
    /\ lastEvent.name = "telemetry"
    /\ lastEvent.socket = "c1"
    /\ lastEvent.sessionId = "S1"
    /\ "S1" \in DOMAIN activeSessions
    /\ activeSessions["S1"].trackName = "Spa"
    /\ "c1" \in rooms["S1"]
    /\ emitted[1].event = "timing:update"
    /\ "c1" \in emitted[1].to

\* The value the gateway puts in the place of an optional field.
OrDefault(value, absent, default) == IF value = absent THEN default ELSE value

\* C25: an incident event that omits severity, lapNumber, trackPosition,
\* driverName or carNumber is not rejected: its handler acknowledges it and
\* emits exactly one 'incident:new' whose incident has severity 'medium',
\* lapNumber 0 and trackPosition 0 in the place of the omitted ones and
\* exactly one involved driver with the event's driverId, role 'involved',
\* and driverName 'Unknown', carNumber '??' where omitted; the fields that
\* were given are passed on; the registry is unchanged.
C25_MissingFieldsGetDefaults ==
    [][lastEvent'.name = "incident"
         => LET data == lastEvent'.data
                news == {k \in 1..Len(emitted') : emitted'[k].event = "incident:new"}
                incident == emitted'[1].payload.incident
            IN  /\ news = {1}
                /\ \E k \in 1..Len(emitted') :
                      /\ emitted'[k].event = "ack"
                      /\ emitted'[k].payload.success
                /\ incident.severity = OrDefault(data.severity, Missing, "medium")
                /\ incident.lapNumber = OrDefault(data.lapNumber, Undefined, 0)
                /\ incident.trackPosition = OrDefault(data.trackPosition, Undefined, 0)
                /\ Len(incident.involvedDrivers) = 1
                /\ incident.involvedDrivers[1].driverId = data.driverId
                /\ incident.involvedDrivers[1].driverName
                      = OrDefault(data.driverName, Missing, "Unknown")
                /\ incident.involvedDrivers[1].carNumber
                      = OrDefault(data.carNumber, Missing, "??")
                /\ incident.involvedDrivers[1].role = "involved"
                /\ activeSessions' = activeSessions]_vars

\* An incident event with only the required fields was broadcast with every
\* default, to a room with a member, while the registry holds a session.
C25_Witness ==
    /\ lastEvent.name = "incident"
    /\ lastEvent.data.severity = Missing
    /\ lastEvent.data.lapNumber = Undefined
    /\ lastEvent.data.trackPosition = Undefined
    /\ lastEvent.data.driverName = Missing
    /\ lastEvent.data.carNumber = Missing
    /\ emitted[1].event = "incident:new"
    /\ emitted[1].to # {}
    /\ emitted[1].payload.incident.severity = "medium"
    /\ emitted[1].payload.incident.involvedDrivers[1].driverName = "Unknown"
    /\ DOMAIN activeSessions # {}

(***************************************************************************)
(* Properties of processTrigger's stages and result (PipelineSpec)         *)
(***************************************************************************)
\* The most recent invocation of processTrigger.
LastCall == calls[Len(calls)]

\* C26: the contact analyzer is called only for a trigger whose mapped type
\* is 'contact' and whose nearbyDriverIds is not empty; a contact-typed
\* trigger without nearby drivers skips the analyzer and goes on: unless the
\* scorer throws its incident is handed to create.
C26_AnalyzerOnlyForContactWithNearby ==
    built.stage # "none"
       => LET called == built.called
              lone == Len(called.trigger.nearbyDriverIds) = 0
          IN  /\ called.analyzerCalls > 0
                    => (called.incidentType = "contact" /\ ~lone)
              /\ (called.incidentType = "contact" /\ lone)
                    => /\ called.analyzerCalls = 0
                       /\ called.predictorCalls = 0
                       /\ called.scorerCalls = 1
                       /\ built.stage = "created" => LastCall.creates = 1

\* A contact-typed trigger without nearby drivers was classified without the
\* analyzer, persisted and returned.
C26_Witness ==
    /\ built.stage = "created"
    /\ built.called.incidentType = "contact"
    /\ built.called.trigger.nearbyDriverIds = <<>>
    /\ built.called.analyzerCalls = 0
    /\ LastCall.persisted
    /\ LastCall.result = "saved"

(***************************************************************************)
(* Properties of the sweep (Spec)                                          *)
(***************************************************************************)
\* C27: with a sweep every 30 s and a TTL of 60 s, a session last named by
\* session_metadata or telemetry at time T is not removed before T + 60 s
\* has passed, and is gone once the sweep due at or before T + 90 s has run:
\* a sweep removes only entries older than 60 s, no entry is older than
\* 90 s, and one of exactly 90 s is removed by the sweep then due.
C27_PresentUntilTTLGoneBySweepAfter ==
    /\ lastEvent.name = "sweep"
          => \A s \in DOMAIN lastEvent.data.removed :
                now - lastEvent.data.removed[s].lastUpdate > TTL
    /\ \A s \in DOMAIN activeSessions :
          /\ refreshedAt[s] = activeSessions[s].lastUpdate
          /\ now - activeSessions[s].lastUpdate <= TTL + SweepInterval
          /\ now - activeSessions[s].lastUpdate = TTL + SweepInterval
                => now = nextSweep

\* A session refreshed at a sweep instant survived the sweep 60 s later and
\* was removed by the one 90 s later.
C27_Witness ==
    /\ lastEvent.name = "sweep"
    /\ \E s \in DOMAIN lastEvent.data.removed :
          now - lastEvent.data.removed[s].lastUpdate = TTL + SweepInterval

\* C28: a sweep only removes entries: every entry it keeps has the
\* trackName, sessionType, driver map and lastUpdate it had, nothing is
\* emitted, and the connections and the members of every room, the rooms of
\* the removed sessions included, stay as they were.
C28_SweepOnlyRemoves ==
    [][lastEvent'.name = "sweep"
         => /\ DOMAIN activeSessions' \subseteq DOMAIN activeSessions
            /\ \A s \in DOMAIN activeSessions' : activeSessions'[s] = activeSessions[s]
            /\ emitted' = <<>>
            /\ rooms' = rooms
            /\ connected' = connected]_vars

\* A sweep removed one session, whose room still has its member, and kept
\* another one with its drivers.
C28_Witness ==
    /\ lastEvent.name = "sweep"
    /\ \E s \in DOMAIN lastEvent.data.removed : rooms[s] # {}
    /\ \E s \in DOMAIN activeSessions : DOMAIN activeSessions[s].drivers # {}
    /\ emitted = <<>>

\* C29: processTrigger returns null only when no incident was persisted.
\* A listener of 'incident:classified' that throws is caught by the same
\* catch block as a failed create: the incident is stored and the caller
\* gets null.
C29_NullOnlyIfNotPersisted ==
    \A i \in 1..Len(calls) : calls[i].result = "null" => ~calls[i].persisted

InLog(log, id) == \E k \in 1..Len(log) : log[k] = id

\* C30: processTrigger never rejects.  Every invocation that has returned
\* resolved to the saved incident, which was then persisted, or to null; an
\* invocation in which the analyzer, the scorer or the predictor threw
\* returned null without a create call and without an emission; one whose
\* create call failed returned null without an emission.
C30_NeverRejects ==
    /\ \A i \in 1..Len(calls) :
          /\ calls[i].pc = "returned" => calls[i].result \in {"saved", "null"}
          /\ calls[i].result = "saved" => calls[i].persisted
          /\ (calls[i].pc = "returned" /\ ~calls[i].persisted)
                => (calls[i].result = "null" /\ calls[i].emits = 0
                    /\ ~InLog(emitLog, calls[i].id))
    /\ built.stage = "threw"
          => /\ LastCall.pc = "returned"
             /\ LastCall.result = "null"
             /\ LastCall.creates = 0
             /\ LastCall.emits = 0
             /\ ~InLog(createLog, LastCall.id)
             /\ ~InLog(emitLog, LastCall.id)

\* The first invocation returned null after its create call failed; in the
\* second one the predictor threw after the analyzer and the scorer had run,
\* and it returned null without reaching create.
C30_Witness ==
    /\ Len(calls) = 2
    /\ calls[1].creates = 1
    /\ calls[1].result = "null"
    /\ ~calls[1].persisted
    /\ built.stage = "threw"
    /\ built.called.analyzerCalls = 1
    /\ built.called.scorerCalls = 1
    /\ built.called.predictorCalls = 1
    /\ calls[2].result = "null"
    /\ createLog = <<1>>

(***************************************************************************)
(* Properties of telemetry over evicted and existing sessions (Spec)       *)
(***************************************************************************)
\* C31: when a sweep has removed an entry that had real metadata and drivers
\* and a telemetry frame for the same session is handled afterwards, the
\* session is back with trackName "Unknown Track", sessionType "race" and a
\* driver map holding the drivers of that frame only: nothing of the removed
\* entry returns.
C31_EvictedSessionRestartsAsPlaceholder ==
    (lastEvent.name = "telemetry" /\ lastEvent.data.evicted)
       => /\ lastEvent.data.unseen
          /\ lastEvent.sessionId \in DOMAIN activeSessions
          /\ activeSessions[lastEvent.sessionId]
                = [sessionId |-> lastEvent.sessionId,
                   trackName |-> "Unknown Track",
                   sessionType |-> "race",
                   drivers |-> SetDrivers(EmptyMap, FrameDrivers(lastEvent.data.frame)),
                   lastUpdate |-> now]

\* A frame naming D1 alone brought back a session whose entry with metadata
\* and drivers the sweep had removed.
C31_Witness ==
    /\ lastEvent.name = "telemetry"
    /\ lastEvent.data.evicted
    /\ DOMAIN activeSessions[lastEvent.sessionId].drivers = {"D1"}
    /\ activeSessions[lastEvent.sessionId].trackName = "Unknown Track"
    /\ now > TTL

\* C32: a telemetry frame for a session that has an entry leaves the
\* entry's trackName and sessionType as they were and removes no driver:
\* the driver map gains the drivers the frame names, the snapshots of the
\* drivers it does not name stay, lastUpdate becomes the time of the frame,
\* and no other session's entry changes.
C32_TelemetryTouchesOnlyItsDrivers ==
    [][(lastEvent'.name = "telemetry" /\ lastEvent'.sessionId \in DOMAIN activeSessions)
         => LET s == lastEvent'.sessionId
                old == activeSessions[s]
                new == activeSessions'[s]
                named == DistinctDriverIds(lastEvent'.data.frame)
            IN  /\ DOMAIN activeSessions' = DOMAIN activeSessions
                /\ \A o \in DOMAIN activeSessions \ {s} :
                      activeSessions'[o] = activeSessions[o]
                /\ new.sessionId = old.sessionId
                /\ new.trackName = old.trackName
                /\ new.sessionType = old.sessionType
                /\ DOMAIN new.drivers = DOMAIN old.drivers \cup named
                /\ \A d \in DOMAIN old.drivers \ named : new.drivers[d] = old.drivers[d]
                /\ new.lastUpdate = now']_vars

\* A later frame naming D1 alone refreshed a session registered as Spa that
\* also holds D2, while the other session has an entry too.
C32_Witness ==
    /\ lastEvent.name = "telemetry"
    /\ ~lastEvent.data.unseen
    /\ DistinctDriverIds(lastEvent.data.frame) = {"D1"}
    /\ activeSessions[lastEvent.sessionId].trackName = "Spa"
    /\ "D2" \in DOMAIN activeSessions[lastEvent.sessionId].drivers
    /\ activeSessions[lastEvent.sessionId].lastUpdate > 0
    /\ DOMAIN activeSessions = Sessions

(***************************************************************************)
(* Properties of room:join (JoinSpec)                                      *)
(***************************************************************************)
\* C33: the handler of room:join for S puts the connection in room
\* session:S whether or not S has an entry, and sends it 'room:joined' for
\* S; it sends 'session:state', with the entry's trackName and sessionType
\* and status 'active', exactly when S has an entry at that moment, and then
\* before 'room:joined'.
C33_JoinAlwaysJoinsStateIffKnown ==
    lastEvent.name = "room:join"
       => LET s == lastEvent.sessionId
              c == lastEvent.socket
              known == s \in DOMAIN activeSessions
          IN  /\ c \in rooms[s]
              /\ Len(emitted) = IF known THEN 2 ELSE 1
              /\ emitted[Len(emitted)] = Emit({c}, "room:joined", [sessionId |-> s])
              /\ known
                    => emitted[1] = Emit({c}, "session:state",
                                         [sessionId |-> s,
                                          trackName |-> activeSessions[s].trackName,
                                          sessionType |-> activeSessions[s].sessionType,
                                          status |-> "active"])

\* A connection joined the room of a session the sweep had removed: it is a
\* member and got 'room:joined' alone.
C33_Witness ==
    /\ lastEvent.name = "room:join"
    /\ lastEvent.sessionId \in evicted
    /\ lastEvent.socket \in rooms[lastEvent.sessionId]
    /\ Len(emitted) = 1
    /\ emitted[1].event = "room:joined"

\* C34: a telemetry event without a drivers array is handled like any
\* other: a session without an entry gets the placeholder entry, lastUpdate
\* becomes the time of the event, the driver map stays as it was (empty for
\* a new entry), and one 'timing:update' with an empty entries list goes to
\* the room of the session.
C34_FrameWithoutDriversIsProcessed ==
    [][(lastEvent'.name = "telemetry" /\ ~lastEvent'.data.frame.given)
         => LET s == lastEvent'.sessionId
            IN  /\ s \in DOMAIN activeSessions'
                /\ activeSessions'[s].lastUpdate = now'
                /\ s \in DOMAIN activeSessions
                      => /\ activeSessions'[s].drivers = activeSessions[s].drivers
                         /\ activeSessions'[s].trackName = activeSessions[s].trackName
                /\ s \notin DOMAIN activeSessions
                      => /\ activeSessions'[s].drivers = EmptyMap
                         /\ activeSessions'[s].trackName = "Unknown Track"
                /\ emitted' = <<Emit(rooms[s], "timing:update",
                                     [sessionId |-> s, sessionTimeMs |-> now',
                                      entries |-> <<>>])>>]_vars

\* An event without drivers refreshed, after the clock had moved, a session
\* that holds drivers, and its empty timing update went to a dashboard.
C34_Witness ==
    /\ lastEvent.name = "telemetry"
    /\ ~lastEvent.data.frame.given
    /\ ~lastEvent.data.unseen
    /\ DOMAIN activeSessions[lastEvent.sessionId].drivers # {}
    /\ activeSessions[lastEvent.sessionId].lastUpdate > 0
    /\ emitted[1].payload.entries = <<>>
    /\ "c2" \in emitted[1].to

(***************************************************************************)
(* Properties of the incident id (Spec)                                    *)
(***************************************************************************)
\* C35: distinct incident events are broadcast with distinct incident ids,
\* also when they are handled within the same millisecond.  Stated over two
\* incident events handled one after the other.  The id is the time of
\* handling and nothing else, so two events of one millisecond share it.
C35_DistinctEventsDistinctIds ==
    [][(/\ lastEvent.name = "incident"
        /\ lastEvent'.name = "incident"
        /\ lastEvent' # lastEvent)
          => emitted'[1].payload.incident.id # emitted[1].payload.incident.id]_vars

(***************************************************************************)
(* Properties of the dashboard's session store (StoreSpec)                 *)
(***************************************************************************)
\* C36: a 'timing:update' message changes the timing list only when its
\* sessionId is the id of currentSession; leaveSession and disconnect leave
\* the store without a current session and with empty drivers and timing;
\* and while there is no current session no 'timing:update' message changes
\* the timing list.
C36_TimingOnlyForCurrentSession ==
    [][/\ (storeEvent'.name = "onTimingUpdate" /\ store'.timing # store.timing)
             => storeEvent'.input.sessionId = store.currentSession
       /\ (storeEvent'.name = "onTimingUpdate" /\ store.currentSession = NoSession)
             => store'.timing = store.timing
       /\ (storeEvent'.name \in {"leaveSession", "disconnect"}
             /\ storeEvent' # storeEvent)
             => /\ store'.currentSession = NoSession
                /\ store'.drivers = <<>>
                /\ store'.timing = <<>>]_vars

\* After leaveSession a message with entries for a session arrived: the
\* timing list is still empty.
C36_Witness ==
    /\ storeEvent.name = "onTimingUpdate"
    /\ storeEvent.lastSessionWrite = "leaveSession"
    /\ storeEvent.input.timing.given
    /\ storeEvent.input.timing.entries # <<>>
    /\ store.currentSession = NoSession
    /\ store.timing = <<>>

(***************************************************************************)
(* Properties of the migrations runner (MigrationSpec)                     *)
(***************************************************************************)
\* The files of the run that were not recorded when it started, in order.
PendingFiles == SelectSeq(run.files, LAMBDA f : f \notin run.before)

\* C37: a run applies the pending .sql files in sorted name order and skips
\* the recorded ones; a name is in _migrations exactly when the SQL of its
\* file is committed; the first file that fails is not committed (rolled
\* back if its transaction was open), ends the run, and no later file is
\* applied in that run; a run that has ended has released its client, and a
\* run of the resilient runner has resolved.
C37_MigrationsInOrderAtomicStopAtFailure ==
    /\ recorded = applied
    /\ \A i \in 1..Len(run.files) : \A j \in 1..Len(run.files) :
          i < j => RankOf(run.files[i]) < RankOf(run.files[j])
    /\ \A i \in 1..Len(run.files) :
          \E e \in DirectoryEntries : e.name = run.files[i] /\ e.ext = "sql"
    /\ Len(run.appliedInRun) <= Len(PendingFiles)
    /\ run.appliedInRun = SubSeq(PendingFiles, 1, Len(run.appliedInRun))
    /\ (run.failed # "none" /\ run.failed \notin run.before)
          => /\ run.pc = "done"
             /\ run.failed \notin applied
             /\ run.failed = PendingFiles[Len(run.appliedInRun) + 1]
             /\ run.rolledBack \in {"none", run.failed}
    /\ (run.pc = "done" /\ ~run.error) => \A i \in 1..Len(run.files) : run.files[i] \in recorded
    /\ run.pc = "done" => run.client # "held"
    /\ (run.pc = "done" /\ run.variant = "resilient") => run.result = "resolved"

\* A second, resilient run skipped the file recorded by the first, applied
\* the next one, rolled back the last one when its SQL failed, released its
\* client and resolved.
C37_Witness ==
    /\ run.number = 2
    /\ run.variant = "resilient"
    /\ run.before = {"001_init.sql"}
    /\ run.appliedInRun = <<"002_users.sql">>
    /\ run.failed = "010_seed.sql"
    /\ run.rolledBack = "010_seed.sql"
    /\ run.pc = "done"
    /\ run.client = "released"
    /\ run.result = "resolved"
    /\ recorded = {"001_init.sql", "002_users.sql"}

============================================================================
